---- MODULE Spec2Model ----
(***************************************************************************)
(* Model of the web-scraping API: the per-domain fixed-window rate limiter *)
(* (src/src/lib/ratelimit.ts), the cache-or-compute layer (cache helpers   *)
(* at the end of src/src/lib/scrapers/techdocs.ts), the timeout and retry  *)
(* wrappers (src/src/lib/errors.ts, BaseScraper.withRetry, navigateToUrl)  *)
(* and the API route handler that composes them.                           *)
(*                                                                         *)
(* The module holds several specifications over one set of variables; a    *)
(* specification leaves the variables of the other components unchanged.   *)
(***************************************************************************)
EXTENDS Integers, Sequences, FiniteSets, TLC

VARIABLES
    now,          \* Date.now(), in milliseconds
    rl,           \* KV entries under `ratelimit:${domain}`
    maxRequests,  \* the maxRequests argument of the rate-limiter calls
    rlPc,         \* position of each checkAndIncrementRateLimit caller
    rlLoc,        \* locals of each caller (and the record of its call)
    winN,         \* per domain: calls answered since the current window was created
    winClean,     \* per domain: the current window saw only sequential, fault-free calls
    nCalls,       \* number of calls started so far
    rlFaulted,    \* a kv.get or kv.set of the rate limiter has thrown
    cache,        \* KV entries under the cache keys
    csPc,         \* position of each cachedScrape caller
    csLoc,        \* locals of each caller (and the record of its call)
    nScrapes,     \* number of cachedScrape calls started so far
    toMs,         \* withTimeout: the timeoutMs argument
    toDue,        \* withTimeout: the instant the timer is due
    toTimer,      \* withTimeout: "pending", "fired" or "cleared"
    toFn,         \* withTimeout: how fn() has settled, if it has
    toPromise,    \* withTimeout: the promise it returned
    toFirst,      \* withTimeout: which event came first
    rtKind,       \* retry loop: "withRetry" or "navigateToUrl"
    rtMax,        \* retry loop: the maxRetries argument
    rtPc,         \* retry loop: "loop", "wait", "returned" or "threw"
    rtAttempt,    \* retry loop: attempt (withRetry) or retries (navigateToUrl)
    rtLast,       \* retry loop: lastError, and the error thrown in the end
    rtCalls,      \* retry loop: the outcomes of the invocations of fn / page.goto
    rtWaits,      \* retry loop: the delays slept so far
    hReq,         \* API route: the requests (handler and scrape task of each)
    nReqs,        \* API route: number of requests received so far
    fnArgs,       \* function under study: the arguments of the call(s)
    fnResult,     \* function under study: what the call(s) returned
    fnPc,         \* function under study: "idle", "called" or "returned"
    pxProxies,    \* proxy rotation: the KV entry 'proxies'
    pxIndex,      \* proxy rotation: the KV entry 'proxy_index'
    pxReturned,   \* proxy rotation: what getProxy returned since the list last changed
    pxOps         \* proxy rotation: number of calls made so far

rlVars == <<rl, maxRequests, rlPc, rlLoc, winN, winClean, nCalls, rlFaulted>>
cacheVars == <<cache, csPc, csLoc, nScrapes>>
toVars == <<toMs, toDue, toTimer, toFn, toPromise, toFirst>>

rtVars == <<rtKind, rtMax, rtPc, rtAttempt, rtLast, rtCalls, rtWaits>>

hVars == <<hReq, nReqs>>

fnVars == <<fnArgs, fnResult, fnPc>>

pxVars == <<pxProxies, pxIndex, pxReturned, pxOps>>

vars == <<now, rlVars, cacheVars, toVars, rtVars, hVars, fnVars, pxVars>>

\* what the rate-limiter specification leaves alone
notRL == <<cacheVars, toVars, rtVars, hVars, fnVars, pxVars>>
\* what the cache specification leaves alone
notCache == <<rlVars, toVars, rtVars, hVars, fnVars, pxVars>>
\* what the withTimeout specification leaves alone
notTO == <<rlVars, cacheVars, rtVars, hVars, fnVars, pxVars>>
\* what the retry specification leaves alone
notRT == <<rlVars, cacheVars, toVars, hVars, fnVars, pxVars>>
\* what the API route specification leaves alone
notH == <<maxRequests, rlPc, rlLoc, winN, winClean, nCalls, rlFaulted, csPc, csLoc, nScrapes, toVars, rtVars, fnVars, pxVars>>
\* what the specifications of single functions leave alone
notFn == <<now, rlVars, cacheVars, toVars, rtVars, hVars, pxVars>>
\* what the proxy rotation specification leaves alone
notPX == <<now, rlVars, cacheVars, toVars, rtVars, hVars, fnVars>>

(***************************************************************************)
(* Bounds                                                                  *)
(***************************************************************************)
MaxM == 3          \* largest maxRequests argument tried
MaxCalls == 4      \* rate-limiter calls per behaviour
MaxTime == 3000    \* the clock stops here
WindowMs == 1500   \* the windowMs argument of the rate-limiter calls
TickMs == 1000     \* granularity of the clock

RLProcs == {1, 2}
RLDomains == {"example"}

(***************************************************************************)
(* The key-value store (get / set with ex seconds)                         *)
(***************************************************************************)
Null == [isNull |-> TRUE]
NoExpiry == -1
MsPerSec == 1000

CeilDiv(a, b) == IF a % b = 0 THEN a \div b ELSE (a \div b) + 1

\* get(): a missing item or an item whose expiry lies in the past reads as null
KvGet(entry, t) ==
    IF entry = Null THEN Null
    ELSE IF entry.expiry /= NoExpiry /\ entry.expiry < t THEN Null
    ELSE entry.value

\* set(): expiry is now + ex * 1000 when ex is given and non-zero
KvSet(value, ex, t) ==
    [value |-> value,
     expiry |-> IF ex /= 0 THEN t + ex * MsPerSec ELSE NoExpiry]

(***************************************************************************)
(* Cache layer: keys, values, idle state                                   *)
(***************************************************************************)
CSProcs == {1, 2}
\* urls: a hostname (a sequence of pieces of text) and a path
Urls ==
    {[host |-> <<"example.com">>, path |-> "/a"],
     [host |-> <<"timeout", ".io">>, path |-> "/a"]}
AnyUrl == [host |-> <<"example.com">>, path |-> "/a"]
MaxScrapes == 2      \* cachedScrape calls per behaviour
Ttls == {1}          \* ttl options tried, in seconds
Undefined == -1      \* an option that is not given
DEFAULT_CACHE_TTL == 3600

\* values a producer can return; [v |-> ""] is a falsy value that is not null
CacheVals == {[v |-> ""], [v |-> "a"]}

\* `${namespace}:${url}${paramsString ? `:${paramsString}` : ''}`, as a
\* sequence of pieces (paramsString is the sequence of its pieces)
cacheKeyText(url, paramsString, namespace) ==
    <<namespace, ":", url>> \o
        (IF paramsString /= <<>> THEN <<":">> \o paramsString ELSE <<>>)

CacheKeys == {cacheKeyText(u, <<>>, "scrape") : u \in Urls}

CSIdleLoc ==
    [key |-> cacheKeyText(AnyUrl, <<>>, "scrape"), ttl |-> 0, value |-> Null,
     ret |-> Null, outcome |-> "none", calls |-> 0,
     held |-> FALSE, getThrew |-> FALSE, setThrew |-> FALSE]

CacheIdle ==
    /\ cache = [k \in CacheKeys |-> Null]
    /\ csPc = [p \in CSProcs |-> "idle"]
    /\ csLoc = [p \in CSProcs |-> CSIdleLoc]
    /\ nScrapes = 0

(***************************************************************************)
(* Errors (src/src/lib/errors.ts).  A message is a sequence of pieces of   *)
(* text; includes() looks for a piece.                                     *)
(***************************************************************************)
Includes(message, piece) == \E i \in DOMAIN message : message[i] = piece

ScrapingError(message, type, statusCode) ==
    [kind |-> "ScrapingError", type |-> type, statusCode |-> statusCode,
     message |-> message]

\* a generic Error and a thrown value that is not an Error
GenericError(message) == [kind |-> "Error", message |-> message]
ThrownValue == [kind |-> "thrown"]

createRateLimitError(message) == ScrapingError(message, "RATE_LIMIT_ERROR", 429)
createTimeoutErrorAs500(message) == ScrapingError(message, "TIMEOUT_ERROR", 500)
createTimeoutError(message) == ScrapingError(message, "TIMEOUT_ERROR", 408)
createNetworkError(message) == ScrapingError(message, "NETWORK_ERROR", 503)
createBrowserError(message) == ScrapingError(message, "BROWSER_ERROR", 500)

handleErrorBrowserFirst(error) ==
    IF error.kind = "ScrapingError" THEN error
    ELSE IF error.kind = "Error"
    THEN IF Includes(error.message, "browser") \/ Includes(error.message, "puppeteer")
         THEN createBrowserError(<<"Browser error: ">> \o error.message)
         ELSE IF Includes(error.message, "timeout") \/ Includes(error.message, "timed out")
         THEN createTimeoutError(<<"Operation ", "timed out", ": ">> \o error.message)
         ELSE IF Includes(error.message, "net::") \/ Includes(error.message, "network")
         THEN createNetworkError(<<"Network error: ">> \o error.message)
         ELSE ScrapingError(<<"Internal error: ">> \o error.message, "INTERNAL_ERROR", 500)
    ELSE ScrapingError(<<"An unknown error occurred">>, "INTERNAL_ERROR", 500)
handleError(error) ==
    IF error.kind = "ScrapingError" THEN error
    ELSE IF error.kind = "Error"
    THEN IF Includes(error.message, "timeout") \/ Includes(error.message, "timed out")
         THEN createTimeoutError(<<"Operation ", "timed out", ": ">> \o error.message)
         ELSE IF Includes(error.message, "net::") \/ Includes(error.message, "network")
         THEN createNetworkError(<<"Network error: ">> \o error.message)
         ELSE IF Includes(error.message, "browser") \/ Includes(error.message, "puppeteer")
         THEN createBrowserError(<<"Browser error: ">> \o error.message)
         ELSE ScrapingError(<<"Internal error: ">> \o error.message, "INTERNAL_ERROR", 500)
    ELSE ScrapingError(<<"An unknown error occurred">>, "INTERNAL_ERROR", 500)

\* promises: pending, fulfilled with a value or rejected with an error
Pending == [state |-> "pending"]
Fulfilled(value) == [state |-> "fulfilled", value |-> value]
Rejected(error) == [state |-> "rejected", error |-> error]

\* resolve() and reject() of a promise that is already settled do nothing
Settle(promise, outcome) == IF promise = Pending THEN outcome ELSE promise

\* withTimeout: idle state
TOIdle ==
    /\ toMs = 0
    /\ toDue = 0
    /\ toTimer = "cleared"
    /\ toFn = Pending
    /\ toPromise = Pending
    /\ toFirst = "none"

\* retry loops: idle state
RTIdle ==
    /\ rtKind = "none"
    /\ rtMax = 0
    /\ rtPc = "returned"
    /\ rtAttempt = 0
    /\ rtLast = "null"
    /\ rtCalls = <<>>
    /\ rtWaits = <<>>

\* API route: no request yet
MaxReqs == 2         \* requests per behaviour
NoReq == [hpc |-> "new"]
HIdle ==
    /\ hReq = [r \in 1..MaxReqs |-> NoReq]
    /\ nReqs = 0

\* no function under study
FnIdle ==
    /\ fnArgs = <<>>
    /\ fnResult = <<>>
    /\ fnPc = "idle"

\* proxy rotation: nothing stored, no call made
PXIdle ==
    /\ pxProxies = [present |-> FALSE, list |-> <<>>]
    /\ pxIndex = [present |-> FALSE, value |-> 0]
    /\ pxReturned = <<>>
    /\ pxOps = 0

(***************************************************************************)
(* Rate limiter                                                            *)
(***************************************************************************)
\* `Date.now() > rateLimitData.reset`
WindowExpiredLate(data, t) == t > data.reset + WindowMs
WindowExpiredAlways(data, t) == TRUE
WindowExpired(data, t) == t > data.reset

\* the value every catch block and the no-window branch of checkRateLimit return
NotLimitedInfoLimited(t, max, win) ==
    [limited |-> TRUE, remaining |-> max, reset |-> t + win, current |-> 0]
NotLimitedInfo(t, max, win) ==
    [limited |-> FALSE, remaining |-> max, reset |-> t + win, current |-> 0]

\* body of checkRateLimit once kv.get has answered with data
checkRateLimitOpen(data, t, max, win) == NotLimitedInfo(t, max, win)
checkRateLimit(data, t, max, win) ==
    IF data = Null \/ WindowExpired(data, t)
    THEN NotLimitedInfo(t, max, win)
    ELSE [limited |-> (max - data.count) <= 0,
          remaining |-> max - data.count,
          reset |-> data.reset,
          current |-> data.count]

\* incrementRateLimit: is a new window created?
incrementCreates(data, t) == data = Null \/ WindowExpired(data, t)

\* incrementRateLimit: the value handed to kv.set
incrementValue(data, t, win) ==
    IF incrementCreates(data, t)
    THEN [count |-> 1, reset |-> t + win]
    ELSE [count |-> data.count + 1, reset |-> data.reset]

\* incrementRateLimit: the ex option handed to kv.set
incrementEx(data, t, win) ==
    IF incrementCreates(data, t)
    THEN CeilDiv(win, MsPerSec)
    ELSE CeilDiv(data.reset - t, MsPerSec)

\* incrementRateLimit: the info returned once kv.set has succeeded
incrementRateLimit(data, t, max, win) ==
    IF incrementCreates(data, t)
    THEN [limited |-> FALSE, remaining |-> max - 1, reset |-> t + win, current |-> 1]
    ELSE [limited |-> (max - (data.count + 1)) <= 0,
          remaining |-> max - (data.count + 1),
          reset |-> data.reset,
          current |-> data.count + 1]

NoValue == [count |-> 0, reset |-> 0]

\* locals of a caller; preCount and fault, overlap record the call for the claims
RLIdleLoc ==
    [dom |-> "example", incNow |-> 0, limited |-> FALSE,
     wval |-> NoValue, wex |-> 0, wnew |-> FALSE,
     preCount |-> 0, fault |-> FALSE, lastFault |-> "none", overlap |-> FALSE]

RLInFlight(p) == rlPc[p] \in {"check_get", "inc_get", "inc_set"}

RLIdle ==
    /\ rl = [d \in RLDomains |-> Null]
    /\ rlPc = [p \in RLProcs |-> "idle"]
    /\ rlLoc = [p \in RLProcs |-> RLIdleLoc]
    /\ winN = [d \in RLDomains |-> 0]
    /\ winClean = [d \in RLDomains |-> TRUE]
    /\ nCalls = 0
    /\ rlFaulted = FALSE

InitRL ==
    /\ now = 0
    /\ maxRequests \in 1..MaxM
    /\ RLIdle
    /\ CacheIdle
    /\ TOIdle
    /\ RTIdle
    /\ HIdle
    /\ FnIdle
    /\ PXIdle

\* checkAndIncrementRateLimit(domain) is called: checkRateLimit issues kv.get
RLBegin(p, d) ==
    /\ rlPc[p] \in {"idle", "done"}
    /\ nCalls < MaxCalls
    /\ nCalls' = nCalls + 1
    /\ rlPc' = [rlPc EXCEPT ![p] = "check_get"]
    /\ LET others == {q \in RLProcs \ {p} : RLInFlight(q) /\ rlLoc[q].dom = d}
       IN /\ rlLoc' = [q \in RLProcs |->
                          IF q = p THEN [RLIdleLoc EXCEPT !.dom = d, !.overlap = others /= {}]
                          ELSE IF q \in others THEN [rlLoc[q] EXCEPT !.overlap = TRUE]
                          ELSE rlLoc[q]]
          /\ winClean' = [winClean EXCEPT ![d] = @ /\ others = {}]
    /\ UNCHANGED <<now, rl, maxRequests, winN, rlFaulted>>
    /\ UNCHANGED notRL

\* a call returns: the number of calls answered in the window grows (or
\* restarts at one when the call created the window)
RLFinish(p, limited, created, fault, lastFault) ==
    LET d == rlLoc[p].dom
        clean == ~fault /\ ~rlLoc[p].overlap
    IN /\ rlPc' = [rlPc EXCEPT ![p] = "done"]
       /\ rlLoc' = [rlLoc EXCEPT ![p] =
                        [RLIdleLoc EXCEPT !.dom = d, !.limited = limited, !.fault = fault,
                                          !.lastFault = lastFault,
                                          !.overlap = rlLoc[p].overlap,
                                          !.preCount = rlLoc[p].preCount]]
       /\ winN' = [winN EXCEPT ![d] = IF created THEN 1 ELSE @ + 1]
       /\ winClean' = [winClean EXCEPT ![d] = IF created THEN clean ELSE @ /\ clean]

\* checkRateLimit: kv.get answers (ok) or throws; a limited answer ends the
\* call, otherwise incrementRateLimit reads the clock and issues its kv.get
RLCheckGet(p, ok) ==
    /\ rlPc[p] = "check_get"
    /\ LET d == rlLoc[p].dom
           data == KvGet(rl[d], now)
           info == IF ok THEN checkRateLimit(data, now, maxRequests, WindowMs)
                   ELSE NotLimitedInfo(now, maxRequests, WindowMs)
           fault == rlLoc[p].fault \/ ~ok
           expired == rl[d] /= Null /\ now > rl[d].value.reset
       IN IF info.limited
          THEN RLFinish(p, TRUE, FALSE, fault, IF ok THEN "none" ELSE "check_get")
          ELSE /\ rlPc' = [rlPc EXCEPT ![p] = "inc_get"]
               /\ rlLoc' = [rlLoc EXCEPT ![p].incNow = now, ![p].fault = fault,
                               ![p].lastFault = IF ok THEN "none" ELSE "check_get",
                               ![p].preCount = IF expired THEN rl[d].value.count ELSE 0]
               /\ UNCHANGED <<winN, winClean>>
    /\ rlFaulted' = (rlFaulted \/ ~ok)
    /\ UNCHANGED <<now, rl, maxRequests, nCalls>>
    /\ UNCHANGED notRL

\* incrementRateLimit: kv.get answers or throws (catch: not limited)
RLIncGet(p, ok) ==
    /\ rlPc[p] = "inc_get"
    /\ LET d == rlLoc[p].dom
           data == KvGet(rl[d], now)
           t == rlLoc[p].incNow
       IN IF ok
          THEN /\ rlPc' = [rlPc EXCEPT ![p] = "inc_set"]
               /\ rlLoc' = [rlLoc EXCEPT
                     ![p].limited = incrementRateLimit(data, t, maxRequests, WindowMs).limited,
                     ![p].wval = incrementValue(data, t, WindowMs),
                     ![p].wex = incrementEx(data, t, WindowMs),
                     ![p].wnew = incrementCreates(data, t)]
               /\ UNCHANGED <<winN, winClean>>
          ELSE RLFinish(p, NotLimitedInfo(now, maxRequests, WindowMs).limited,
                        FALSE, TRUE, "inc_get")
    /\ rlFaulted' = (rlFaulted \/ ~ok)
    /\ UNCHANGED <<now, rl, maxRequests, nCalls>>
    /\ UNCHANGED notRL

\* incrementRateLimit: kv.set is applied or throws (catch: not limited)
RLIncSet(p, ok) ==
    /\ rlPc[p] = "inc_set"
    /\ LET d == rlLoc[p].dom
       IN IF ok
          THEN /\ rl' = [rl EXCEPT ![d] = KvSet(rlLoc[p].wval, rlLoc[p].wex, now)]
               /\ RLFinish(p, rlLoc[p].limited, rlLoc[p].wnew, rlLoc[p].fault,
                           rlLoc[p].lastFault)
          ELSE /\ rl' = rl
               /\ RLFinish(p, NotLimitedInfo(now, maxRequests, WindowMs).limited,
                           FALSE, TRUE, "inc_set")
    /\ rlFaulted' = (rlFaulted \/ ~ok)
    /\ UNCHANGED <<now, maxRequests, nCalls>>
    /\ UNCHANGED notRL

\* the clock advances
RLTick ==
    /\ now + TickMs <= MaxTime
    /\ now' = now + TickMs
    /\ UNCHANGED rlVars
    /\ UNCHANGED notRL

NextRL ==
    \/ \E p \in RLProcs, d \in RLDomains : RLBegin(p, d)
    \/ \E p \in RLProcs, ok \in BOOLEAN : RLCheckGet(p, ok)
    \/ \E p \in RLProcs, ok \in BOOLEAN : RLIncGet(p, ok)
    \/ \E p \in RLProcs, ok \in BOOLEAN : RLIncSet(p, ok)
    \/ RLTick

SpecRL == InitRL /\ [][NextRL]_vars

\* a caller takes the step that returns from checkAndIncrementRateLimit
RLReturns(p) == rlPc[p] /= "done" /\ rlPc'[p] = "done"

\* C1: sequential fault-free calls on one domain inside one window, starting
\* from no stored window: call i returns limited exactly when i > maxRequests.
C1_FirstMAllowed ==
    [][\A p \in RLProcs :
          (RLReturns(p) /\ winClean'[rlLoc[p].dom])
              => (rlLoc'[p].limited <=> (winN'[rlLoc[p].dom] > maxRequests))]_vars

\* C6: a sequential fault-free call that finds the stored window expired
\* (now > reset) returns limited = FALSE from incrementRateLimit and leaves
\* the window {count: 1, reset: now + windowMs}, whatever the old count was.
C6_ExpiredWindowReplaced ==
    [][\A p \in RLProcs :
          LET d == rlLoc[p].dom
              t == IF rlPc[p] = "check_get" THEN now ELSE rlLoc[p].incNow
          IN (/\ RLReturns(p)
              /\ ~rlLoc'[p].fault /\ ~rlLoc'[p].overlap
              /\ rl[d] /= Null
              /\ t > rl[d].value.reset)
                 => (/\ rlPc[p] = "inc_set"
                     /\ rlLoc'[p].limited = FALSE
                     /\ rl'[d] /= Null
                     /\ rl'[d].value = [count |-> 1, reset |-> t + WindowMs])]_vars

\* C6 witness: a sequential call found an expired window whose count had
\* reached the maximum, was allowed, and the window restarted at count 1
C6_Witness ==
    \E p \in RLProcs :
        /\ rlPc[p] = "done"
        /\ rlLoc[p].preCount >= maxRequests
        /\ ~rlLoc[p].fault /\ ~rlLoc[p].overlap /\ ~rlLoc[p].limited
        /\ rl[rlLoc[p].dom] /= Null
        /\ rl[rlLoc[p].dom].value.count = 1

\* C11 as stated: a call of checkAndIncrementRateLimit during which any get or
\* set of the store threw returns limited = FALSE.
C11_AnyStoreFaultAllows ==
    [][\A p \in RLProcs :
          (RLReturns(p) /\ rlLoc'[p].fault) => ~rlLoc'[p].limited]_vars

\* C11, amended: a call returns limited = FALSE, with the store as it was,
\* when the kv.get or kv.set of incrementRateLimit throws; when only the
\* kv.get of checkRateLimit threw, the check counts as not limited and the
\* call returns the answer of incrementRateLimit.  Every call returns.
C11_StoreFaultFailsOpen ==
    [][\A p \in RLProcs :
          RLReturns(p) =>
             /\ rlLoc'[p].lastFault \in {"inc_get", "inc_set"} =>
                    (~rlLoc'[p].limited /\ rl' = rl)
             /\ rlLoc'[p].lastFault = "check_get" =>
                    (rlPc[p] = "inc_set" /\ rlLoc'[p].limited = rlLoc[p].limited)]_vars

\* C11 witness: the kv.set of incrementRateLimit threw on a window that the
\* increment would have filled, and the call returned not limited
C11_Witness ==
    \E p \in RLProcs :
        /\ rlPc[p] = "done"
        /\ rlLoc[p].lastFault = "inc_set"
        /\ ~rlLoc[p].limited
        /\ rl[rlLoc[p].dom] /= Null
        /\ rl[rlLoc[p].dom].value.count + 1 >= maxRequests

(***************************************************************************)
(* Cache layer: getCachedValue, setCachedValue, getOrSetCachedValue,       *)
(* cachedScrape                                                            *)
(***************************************************************************)
\* getCachedValue: kv.get answers (ok) or throws; the catch returns null
getCachedValueNoCatch(entry, t, ok) ==
    IF ok THEN [threw |-> FALSE, value |-> KvGet(entry, t)]
    ELSE [threw |-> TRUE, value |-> Null]
getCachedValue(entry, t, ok) ==
    IF ok THEN [threw |-> FALSE, value |-> KvGet(entry, t)]
    ELSE [threw |-> FALSE, value |-> Null]

\* a store that keeps the value it already holds (first write wins)
setCachedValueKeepFirst(entry, value, ttl, t, ok) ==
    IF ok /\ entry = Null
    THEN [threw |-> FALSE, stored |-> TRUE, entry |-> KvSet(value, ttl, t)]
    ELSE [threw |-> FALSE, stored |-> FALSE, entry |-> entry]

\* setCachedValue: kv.set is applied (ok) or throws; the catch returns false
setCachedValue(entry, value, ttl, t, ok) ==
    IF ok THEN [threw |-> FALSE, stored |-> TRUE, entry |-> KvSet(value, ttl, t)]
    ELSE [threw |-> FALSE, stored |-> FALSE, entry |-> entry]

\* getOrSetCachedValue: `cachedValue !== null`
IsCachedTruthy(cachedValue) == cachedValue /= Null /\ cachedValue.v /= ""
IsCached(cachedValue) == cachedValue /= Null

\* cachedScrape: `ttl = DEFAULT_CACHE_TTL` when options.ttl is not given
cachedScrapeTtl(ttlOption) ==
    IF ttlOption = Undefined THEN DEFAULT_CACHE_TTL ELSE ttlOption

InitCache ==
    /\ now = 0
    /\ maxRequests = 1
    /\ RLIdle
    /\ CacheIdle
    /\ TOIdle
    /\ RTIdle
    /\ HIdle
    /\ FnIdle
    /\ PXIdle

\* cachedScrape(url, scrapeFunction, {}, {ttl}) is called: the key is
\* derived and getCachedValue issues kv.get
CSBegin(p, url, ttlOption) ==
    /\ csPc[p] \in {"idle", "done"}
    /\ nScrapes < MaxScrapes
    /\ nScrapes' = nScrapes + 1
    /\ csPc' = [csPc EXCEPT ![p] = "get"]
    /\ csLoc' = [csLoc EXCEPT ![p] =
                    [CSIdleLoc EXCEPT !.key = cacheKeyText(url, <<>>, "scrape"),
                                      !.ttl = cachedScrapeTtl(ttlOption)]]
    /\ UNCHANGED <<now, cache>>
    /\ UNCHANGED notCache

\* getOrSetCachedValue: the lookup answers; a cached value is returned,
\* otherwise the factory is invoked
CSGet(p, ok) ==
    /\ csPc[p] = "get"
    /\ LET k == csLoc[p].key
           got == getCachedValue(cache[k], now, ok)
           held == KvGet(cache[k], now) /= Null
       IN IF got.threw
          THEN /\ csPc' = [csPc EXCEPT ![p] = "done"]
               /\ csLoc' = [csLoc EXCEPT ![p].outcome = "threw_store",
                                         ![p].held = held, ![p].getThrew = ~ok]
          ELSE IF IsCached(got.value)
          THEN /\ csPc' = [csPc EXCEPT ![p] = "done"]
               /\ csLoc' = [csLoc EXCEPT ![p].outcome = "returned",
                                         ![p].ret = got.value,
                                         ![p].held = held, ![p].getThrew = ~ok]
          ELSE /\ csPc' = [csPc EXCEPT ![p] = "produce"]
               /\ csLoc' = [csLoc EXCEPT ![p].calls = @ + 1,
                                         ![p].held = held, ![p].getThrew = ~ok]
    /\ UNCHANGED <<now, cache, nScrapes>>
    /\ UNCHANGED notCache

\* the factory resolves with a value: setCachedValue issues kv.set
CSProduce(p, v) ==
    /\ csPc[p] = "produce"
    /\ csPc' = [csPc EXCEPT ![p] = "set"]
    /\ csLoc' = [csLoc EXCEPT ![p].value = v]
    /\ UNCHANGED <<now, cache, nScrapes>>
    /\ UNCHANGED notCache

\* the factory rejects: getOrSetCachedValue rejects with the factory's error
CSProduceFails(p) ==
    /\ csPc[p] = "produce"
    /\ csPc' = [csPc EXCEPT ![p] = "done"]
    /\ csLoc' = [csLoc EXCEPT ![p].outcome = "threw_producer"]
    /\ UNCHANGED <<now, cache, nScrapes>>
    /\ UNCHANGED notCache

\* setCachedValue settles and getOrSetCachedValue returns the value
CSSet(p, ok) ==
    /\ csPc[p] = "set"
    /\ LET k == csLoc[p].key
           put == setCachedValue(cache[k], csLoc[p].value, csLoc[p].ttl, now, ok)
       IN /\ cache' = [cache EXCEPT ![k] = put.entry]
          /\ csPc' = [csPc EXCEPT ![p] = "done"]
          /\ csLoc' = [csLoc EXCEPT
                ![p].outcome = IF put.threw THEN "threw_store" ELSE "returned",
                ![p].ret = IF put.threw THEN Null ELSE csLoc[p].value,
                ![p].setThrew = ~ok]
    /\ UNCHANGED <<now, nScrapes>>
    /\ UNCHANGED notCache

\* the clock advances
CSTick ==
    /\ now + TickMs <= MaxTime
    /\ now' = now + TickMs
    /\ UNCHANGED cacheVars
    /\ UNCHANGED notCache

NextCache ==
    \/ \E p \in CSProcs, u \in Urls, t \in Ttls \cup {Undefined} : CSBegin(p, u, t)
    \/ \E p \in CSProcs, ok \in BOOLEAN : CSGet(p, ok)
    \/ \E p \in CSProcs, v \in CacheVals : CSProduce(p, v)
    \/ \E p \in CSProcs : CSProduceFails(p)
    \/ \E p \in CSProcs, ok \in BOOLEAN : CSSet(p, ok)
    \/ CSTick

SpecCache == InitCache /\ [][NextCache]_vars

\* C2: when the lookup answers with an unexpired non-null stored value the
\* call returns that value and the producer is not invoked; when it answers
\* with a miss the producer is invoked (once per call); a produced value whose
\* store write is applied is stored under the key with expiry now + ttl
\* seconds in the step that returns that same value.
C2_HitSkipsProducerMissStores ==
    [][\A p \in CSProcs :
          LET k == csLoc[p].key
              stored == KvGet(cache[k], now)
          IN /\ (csPc[p] = "get" /\ csPc'[p] /= "get" /\ ~csLoc'[p].getThrew) =>
                    IF stored /= Null
                    THEN /\ csPc'[p] = "done"
                         /\ csLoc'[p].outcome = "returned"
                         /\ csLoc'[p].ret = stored
                         /\ csLoc'[p].calls = 0
                    ELSE /\ csPc'[p] = "produce"
                         /\ csLoc'[p].calls = 1
             /\ (csPc[p] = "set" /\ csPc'[p] /= "set" /\ ~csLoc'[p].setThrew) =>
                    /\ csPc'[p] = "done"
                    /\ csLoc'[p].outcome = "returned"
                    /\ csLoc'[p].ret = csLoc[p].value
                    /\ csLoc'[p].calls = 1
                    /\ cache'[k] = [value |-> csLoc[p].value,
                                    expiry |-> now + csLoc[p].ttl * MsPerSec]
             /\ csLoc'[p].calls <= 1]_vars

\* C2 witness: one call missed, produced the falsy value and stored it, and
\* another call then returned that stored value without invoking its producer
C2_Witness ==
    \E p, q \in CSProcs :
        /\ p /= q
        /\ csPc[p] = "done" /\ csPc[q] = "done"
        /\ csLoc[p].key = csLoc[q].key
        /\ csLoc[p].calls = 1 /\ ~csLoc[p].getThrew /\ ~csLoc[p].setThrew
        /\ csLoc[p].outcome = "returned" /\ csLoc[p].ret = [v |-> ""]
        /\ csLoc[q].calls = 0 /\ csLoc[q].held /\ ~csLoc[q].getThrew
        /\ csLoc[q].outcome = "returned" /\ csLoc[q].ret = [v |-> ""]

\* C10: a throwing store never fails cachedScrape: when kv.get throws the
\* call goes on to invoke the producer (also when a value is stored), when
\* kv.set throws the produced value is still returned, and no call ever ends
\* with a store error.
C10_StoreFailureSwallowed ==
    /\ \A p \in CSProcs : csLoc[p].outcome /= "threw_store"
    /\ \A p \in CSProcs :
          (csLoc[p].getThrew /\ csPc[p] /= "get") => csLoc[p].calls = 1
    /\ \A p \in CSProcs :
          (csLoc[p].setThrew /\ csPc[p] = "done") =>
              (csLoc[p].outcome = "returned" /\ csLoc[p].ret = csLoc[p].value
                  /\ csLoc[p].ret /= Null)

\* C10 witness: kv.get threw although a value was stored, the producer ran,
\* kv.set threw as well, and the call returned the produced value
C10_Witness ==
    \E p \in CSProcs :
        /\ csPc[p] = "done"
        /\ csLoc[p].getThrew /\ csLoc[p].held /\ csLoc[p].setThrew
        /\ csLoc[p].calls = 1
        /\ csLoc[p].outcome = "returned"
        /\ csLoc[p].ret = csLoc[p].value /\ csLoc[p].ret \in CacheVals

(***************************************************************************)
(* withTimeout                                                             *)
(***************************************************************************)
TimeoutChoices == {1000, 2000, 3000}
FnValues == {[v |-> "r1"], [v |-> "r2"]}
FnErrors ==
    {GenericError(<<"boom">>),
     GenericError(<<"Navigation ", "timeout", " of 30000 ms exceeded">>),
     GenericError(<<"net::", "ERR_CONNECTION_REFUSED">>),
     createRateLimitError(<<"Rate limit exceeded">>),
     ThrownValue}

\* the default timeoutMessage
TimeoutMessage == <<"Operation ", "timed out">>

\* withTimeout(fn, timeoutMs) has been called: the timer is set and fn() runs
InitTO ==
    /\ now = 0
    /\ maxRequests = 1
    /\ RLIdle
    /\ CacheIdle
    /\ RTIdle
    /\ HIdle
    /\ FnIdle
    /\ PXIdle
    /\ toMs \in TimeoutChoices
    /\ toDue = toMs
    /\ toTimer = "pending"
    /\ toFn = Pending
    /\ toPromise = Pending
    /\ toFirst = "none"

\* the setTimeout callback runs: reject(createTimeoutError(...))
TOTimerFires ==
    /\ toTimer = "pending"
    /\ now >= toDue
    /\ toTimer' = "fired"
    /\ toPromise' = Settle(toPromise, Rejected(createTimeoutError(TimeoutMessage)))
    /\ toFirst' = IF toFirst = "none" THEN "timer" ELSE toFirst
    /\ UNCHANGED <<now, toMs, toDue, toFn>>
    /\ UNCHANGED notTO

\* clearTimeout(timeoutId): a timer that has not fired never will
clearTimeout(timer) == IF timer = "pending" THEN "cleared" ELSE timer

\* fn() resolves: the then-callback clears the timer and resolves
TOFnResolves(v) ==
    /\ toFn = Pending
    /\ toFn' = Fulfilled(v)
    /\ toTimer' = clearTimeout(toTimer)
    /\ toPromise' = Settle(toPromise, Fulfilled(v))
    /\ toFirst' = IF toFirst = "none" THEN "fn" ELSE toFirst
    /\ UNCHANGED <<now, toMs, toDue>>
    /\ UNCHANGED notTO

\* fn() rejects: the catch-callback clears the timer and rejects with the
\* classified error
TOFnRejects(e) ==
    /\ toFn = Pending
    /\ toFn' = Rejected(e)
    /\ toTimer' = clearTimeout(toTimer)
    /\ toPromise' = Settle(toPromise, Rejected(handleError(e)))
    /\ toFirst' = IF toFirst = "none" THEN "fn" ELSE toFirst
    /\ UNCHANGED <<now, toMs, toDue>>
    /\ UNCHANGED notTO

\* the clock advances
TOTick ==
    /\ now + TickMs <= MaxTime
    /\ now' = now + TickMs
    /\ UNCHANGED toVars
    /\ UNCHANGED notTO

NextTO ==
    \/ TOTimerFires
    \/ \E v \in FnValues : TOFnResolves(v)
    \/ \E e \in FnErrors : TOFnRejects(e)
    \/ TOTick

SpecTO == InitTO /\ [][NextTO]_vars

\* the outcome withTimeout delivers when fn settles first
TOFnOutcome ==
    IF toFn.state = "fulfilled" THEN Fulfilled(toFn.value)
    ELSE Rejected(handleError(toFn.error))

\* C4: the promise of withTimeout settles with the first event and never
\* changes afterwards: timer first gives the TIMEOUT_ERROR rejection (408)
\* whatever fn does later; fn first gives fn's value or its classified error,
\* the timer is cleared and never fires.
C4_FirstEventWins ==
    /\ (toFirst = "none") <=> (toPromise = Pending)
    /\ toFirst = "timer" =>
          /\ toPromise.state = "rejected"
          /\ toPromise.error.kind = "ScrapingError"
          /\ toPromise.error.type = "TIMEOUT_ERROR"
          /\ toPromise.error.statusCode = 408
          /\ toPromise.error.message = TimeoutMessage
    /\ toFirst = "fn" =>
          /\ toFn /= Pending
          /\ toPromise = TOFnOutcome
          /\ toTimer = "cleared"

\* C4 witness: the timer fired first and fn resolved afterwards
C4_Witness ==
    /\ toFirst = "timer"
    /\ toFn.state = "fulfilled"
    /\ toPromise.state = "rejected"

(***************************************************************************)
(* BaseScraper.withRetry and navigateToUrl                                 *)
(***************************************************************************)
MaxRetriesArg == 3        \* largest maxRetries argument tried
RetryErrors == {"e1", "e2"}
NAV_RETRY_DELAY == 1000
RETRY_BASE_DELAY == 1000
DEFAULT_RETRIES == 3

RECURSIVE Pow2(_)
Pow2(n) == IF n = 0 THEN 1 ELSE 2 * Pow2(n - 1)

\* `maxRetries || 3`
OrDefault(maxRetries) == IF maxRetries = 0 THEN DEFAULT_RETRIES ELSE maxRetries

\* `Math.pow(2, attempt) * 1000`
retryDelay(attempt) == Pow2(attempt) * RETRY_BASE_DELAY

\* withRetry(fn, maxRetries) or navigateToUrl(page, url, {maxRetries}) is called
InitRT ==
    /\ now = 0
    /\ maxRequests = 1
    /\ RLIdle
    /\ CacheIdle
    /\ TOIdle
    /\ HIdle
    /\ FnIdle
    /\ PXIdle
    /\ rtKind \in {"withRetry", "navigateToUrl"}
    /\ rtMax \in 0..MaxRetriesArg
    /\ rtPc = "loop"
    /\ rtAttempt = 0
    /\ rtLast = "null"
    /\ rtCalls = <<>>
    /\ rtWaits = <<>>

\* withRetry: fn() is invoked and resolves; its result is returned
WRSucceeds ==
    /\ rtKind = "withRetry" /\ rtPc = "loop"
    /\ rtAttempt < OrDefault(rtMax) + 1
    /\ rtCalls' = Append(rtCalls, "ok")
    /\ rtPc' = "returned"
    /\ UNCHANGED <<now, rtKind, rtMax, rtAttempt, rtLast, rtWaits>>
    /\ UNCHANGED notRT

\* withRetry: fn() is invoked and rejects with e; after the last attempt the
\* loop is left and lastError is thrown, otherwise the backoff sleep starts
WRFails(e) ==
    /\ rtKind = "withRetry" /\ rtPc = "loop"
    /\ rtAttempt < OrDefault(rtMax) + 1
    /\ rtCalls' = Append(rtCalls, e)
    /\ rtLast' = e
    /\ IF rtAttempt >= OrDefault(rtMax)
       THEN rtPc' = "threw" /\ rtWaits' = rtWaits
       ELSE rtPc' = "wait" /\ rtWaits' = Append(rtWaits, retryDelay(rtAttempt))
    /\ UNCHANGED <<now, rtKind, rtMax, rtAttempt>>
    /\ UNCHANGED notRT

\* withRetry: the sleep ends, attempt++
WRWakes ==
    /\ rtKind = "withRetry" /\ rtPc = "wait"
    /\ now' = now + rtWaits[Len(rtWaits)]
    /\ rtAttempt' = rtAttempt + 1
    /\ rtPc' = "loop"
    /\ UNCHANGED <<rtKind, rtMax, rtLast, rtCalls, rtWaits>>
    /\ UNCHANGED notRT

\* navigateToUrl: page.goto succeeds, the function returns
NavSucceeds ==
    /\ rtKind = "navigateToUrl" /\ rtPc = "loop"
    /\ rtAttempt < rtMax
    /\ rtCalls' = Append(rtCalls, "ok")
    /\ rtPc' = "returned"
    /\ UNCHANGED <<now, rtKind, rtMax, rtAttempt, rtLast, rtWaits>>
    /\ UNCHANGED notRT

\* navigateToUrl: page.goto throws e; retries++, and the error is rethrown
\* once retries >= maxRetries, otherwise the one-second sleep starts
NavFails(e) ==
    /\ rtKind = "navigateToUrl" /\ rtPc = "loop"
    /\ rtAttempt < rtMax
    /\ rtCalls' = Append(rtCalls, e)
    /\ rtAttempt' = rtAttempt + 1
    /\ IF rtAttempt + 1 >= rtMax
       THEN rtPc' = "threw" /\ rtLast' = e /\ rtWaits' = rtWaits
       ELSE rtPc' = "wait" /\ rtLast' = rtLast /\ rtWaits' = Append(rtWaits, NAV_RETRY_DELAY)
    /\ UNCHANGED <<now, rtKind, rtMax>>
    /\ UNCHANGED notRT

\* navigateToUrl: the sleep ends and the loop condition is tested again
NavWakes ==
    /\ rtKind = "navigateToUrl" /\ rtPc = "wait"
    /\ now' = now + rtWaits[Len(rtWaits)]
    /\ rtPc' = "loop"
    /\ UNCHANGED <<rtKind, rtMax, rtAttempt, rtLast, rtCalls, rtWaits>>
    /\ UNCHANGED notRT

\* navigateToUrl: `retries < maxRetries` is false, the function returns
NavLoopEnds ==
    /\ rtKind = "navigateToUrl" /\ rtPc = "loop"
    /\ ~(rtAttempt < rtMax)
    /\ rtPc' = "returned"
    /\ UNCHANGED <<now, rtKind, rtMax, rtAttempt, rtLast, rtCalls, rtWaits>>
    /\ UNCHANGED notRT

NextRT ==
    \/ WRSucceeds
    \/ \E e \in RetryErrors : WRFails(e)
    \/ WRWakes
    \/ NavSucceeds
    \/ \E e \in RetryErrors : NavFails(e)
    \/ NavWakes
    \/ NavLoopEnds

SpecRT == InitRT /\ [][NextRT]_vars

\* the last invocation so far succeeded
RTLastOk == rtCalls /= <<>> /\ rtCalls[Len(rtCalls)] = "ok"

\* C8: withRetry invokes fn at most maxRetries + 1 times, returns right after
\* the first successful invocation, and throws the error of the last attempt
\* once maxRetries + 1 attempts have failed.
C8_WithRetryBound ==
    rtKind = "withRetry" =>
        /\ Len(rtCalls) <= rtMax + 1
        /\ \A i \in 1..Len(rtCalls) : rtCalls[i] = "ok" => i = Len(rtCalls)
        /\ rtPc = "returned" => RTLastOk
        /\ rtPc = "threw" =>
              (Len(rtCalls) = rtMax + 1 /\ rtLast = rtCalls[Len(rtCalls)])

\* C9: navigateToUrl follows the withRetry policy: a page.goto that keeps
\* failing is attempted maxRetries + 1 times, with 2^attempt seconds slept
\* between attempts, before the last navigation error is thrown.
C9_NavigationUsesWithRetry ==
    (rtKind = "navigateToUrl" /\ rtPc /= "loop" /\ ~RTLastOk) =>
        /\ rtPc = "threw" =>
              (Len(rtCalls) = rtMax + 1 /\ rtLast = rtCalls[Len(rtCalls)])
        /\ rtPc = "returned" => FALSE
        /\ \A i \in 1..Len(rtWaits) : rtWaits[i] = retryDelay(i - 1)

(***************************************************************************)
(* API route handler, BaseScraper.scrapeWithCache and the scrape functions *)
(* of the scrapers.  A request has a handler (hpc) and the scrape task     *)
(* that withTimeout started (spc); the task goes on after a timeout.       *)
(***************************************************************************)
\* two of the types of the switch; all of them make the same calls
ScraperTypes == {"news", "techdocs"}
DEFAULT_MAX_REQUESTS == 60
DEFAULT_WINDOW_MS == 60000
HandlerTickMs == 70000     \* granularity of the clock of SpecH
MaxHandlerTime == 70000    \* the clock of SpecH stops here
ShortTtl == 60             \* the cacheTtl option of the requests, in seconds
NavRetries == 2            \* the maxRetries option of the requests

\* BaseScraper constructor: the defaults, overridden by the request's options
DefaultOptions ==
    [cacheEnabled |-> TRUE, cacheTtl |-> DEFAULT_CACHE_TTL, rateLimit |-> TRUE,
     maxRetries |-> DEFAULT_RETRIES]
\* the options of the requests: { cacheTtl, maxRetries }, with and without
\* cacheEnabled: false and rateLimit: false
RequestOptions ==
    [DefaultOptions EXCEPT !.cacheTtl = ShortTtl, !.maxRetries = NavRetries]
OptionSets ==
    {RequestOptions,
     [RequestOptions EXCEPT !.cacheEnabled = FALSE],
     [RequestOptions EXCEPT !.rateLimit = FALSE]}

\* stored counts a domain's window can have when the first request arrives
InitialCounts == {58}

extractDomain(url) == url.host

\* what the page yields when it is extracted
Extracts == {[content |-> "c1", summary |-> "undefined"]}

\* JSON.stringify drops the properties whose value is undefined
Serialize(result) ==
    IF "summary" \in DOMAIN result /\ result.summary = "undefined"
    THEN [f \in DOMAIN result \ {"summary"} |-> result[f]]
    ELSE result

NewReq(type, url, options) ==
    [type |-> type, url |-> url, opts |-> options,
     hpc |-> "h_check_get", spc |-> "s_idle",
     incNow |-> 0, wval |-> NoValue, wex |-> 0, wlim |-> FALSE,
     field |-> FALSE, br |-> "none", retries |-> 0,
     out |-> Pending, hout |-> Pending,
     status |-> 0, data |-> Null, errmsg |-> <<>>,
     rejectedBy |-> "none", launched |-> FALSE, navigated |-> FALSE,
     cacheFault |-> FALSE, ttlExpired |-> FALSE, cacheRead |-> FALSE]

HFinished(r) == hReq[r].hpc = "responded"
SFinished(r) == hReq[r].hpc /= "new" /\ hReq[r].spc \in {"s_idle", "s_done"}

InitH ==
    /\ now = 0
    /\ maxRequests = DEFAULT_MAX_REQUESTS
    /\ rlPc = [p \in RLProcs |-> "idle"]
    /\ rlLoc = [p \in RLProcs |-> RLIdleLoc]
    /\ winN = [d \in RLDomains |-> 0]
    /\ winClean = [d \in RLDomains |-> TRUE]
    /\ nCalls = 0
    /\ rlFaulted = FALSE
    /\ \E c \in InitialCounts \cup {0} :
          rl = [d \in {extractDomain(u) : u \in Urls} |->
                   IF c = 0 THEN Null
                   ELSE KvSet([count |-> c, reset |-> DEFAULT_WINDOW_MS],
                              CeilDiv(DEFAULT_WINDOW_MS, MsPerSec), 0)]
    /\ cache = [k \in CacheKeys |-> Null]
    /\ csPc = [p \in CSProcs |-> "idle"]
    /\ csLoc = [p \in CSProcs |-> CSIdleLoc]
    /\ nScrapes = 0
    /\ TOIdle
    /\ RTIdle
    /\ HIdle
    /\ FnIdle
    /\ PXIdle

\* the response is sent: 200 with the serialized result, or the status and
\* message of the classified error
Respond(rec, outcome) ==
    IF outcome.state = "fulfilled"
    THEN [rec EXCEPT !.hpc = "responded", !.status = 200,
                     !.data = Serialize(outcome.value)]
    ELSE [rec EXCEPT !.hpc = "responded",
                     !.status = handleError(outcome.error).statusCode,
                     !.errmsg = handleError(outcome.error).message]

\* the handler's continuation after withTimeout settled: scraper.close()
\* closes the browser if this.browser is set, then the response is sent
Deliver(rec, outcome) ==
    IF rec.field
    THEN [rec EXCEPT !.br = "closed", !.hpc = "h_closing", !.hout = outcome]
    ELSE Respond(rec, outcome)

\* the locals of a finished checkAndIncrementRateLimit call are gone
ClearLocals(rec) ==
    [rec EXCEPT !.incNow = 0, !.wval = NoValue, !.wex = 0, !.wlim = FALSE]

\* the scrape task settles; withTimeout passes the value or the classified
\* error on if its timer has not fired
TaskSettles(rec, outcome) ==
    LET rec1 == [ClearLocals(rec) EXCEPT !.spc = "s_done", !.out = Pending,
                                         !.retries = 0]
    IN IF rec.hpc = "h_await"
       THEN Deliver(rec1, IF outcome.state = "fulfilled" THEN outcome
                          ELSE Rejected(handleError(outcome.error)))
       ELSE rec1

\* scrapeWithCache after the rate-limit check: cachedScrape or the scrape
\* function itself, whose first step is initBrowser (launchBrowser)
AfterRateLimitNoCache(rec) ==
    [rec EXCEPT !.spc = "s_launch", !.br = "launching", !.launched = TRUE]
AfterRateLimit(rec) ==
    IF rec.opts.cacheEnabled
    THEN [rec EXCEPT !.spc = "s_cache_get"]
    ELSE [rec EXCEPT !.spc = "s_launch", !.br = "launching", !.launched = TRUE]

\* scraper.scrape(url) is called inside withTimeout
StartScrape(rec) ==
    LET rec1 == [rec EXCEPT !.hpc = "h_await"]
    IN IF rec.opts.rateLimit
       THEN [rec1 EXCEPT !.spc = "s_check_get"]
       ELSE AfterRateLimit(rec1)

RateLimitMessage(url) == <<"Rate limit exceeded for domain: ">> \o extractDomain(url)
PageError == GenericError(<<"Protocol error: Target closed">>)
LaunchError == GenericError(<<"Failed to launch the ", "browser", " process">>)
GotoError == GenericError(<<"net::", "ERR_CONNECTION_REFUSED">>)
ScrapeTimeoutMessage == <<"Scraping operation ", "timed out", " after ${timeout}ms">>

\* a POST request with a valid url and type arrives; the requests are made
\* one after another, each once the previous one has been answered and the
\* work it started has ended; the handler issues the kv.get of checkRateLimit
HBegin(type, url, options) ==
    /\ nReqs < MaxReqs
    /\ nReqs > 0 => (HFinished(nReqs) /\ SFinished(nReqs))
    /\ nReqs' = nReqs + 1
    /\ hReq' = [hReq EXCEPT ![nReqs + 1] = NewReq(type, url, options)]
    /\ UNCHANGED <<now, rl, cache>>
    /\ UNCHANGED notH

\* handler: checkRateLimit answers; 429 when limited
HCheckGet(r) ==
    /\ hReq[r].hpc = "h_check_get"
    /\ LET rec == hReq[r]
           data == KvGet(rl[extractDomain(rec.url)], now)
           info == checkRateLimit(data, now, DEFAULT_MAX_REQUESTS, DEFAULT_WINDOW_MS)
       IN hReq' = [hReq EXCEPT ![r] =
             IF info.limited
             THEN [rec EXCEPT !.hpc = "responded", !.status = 429,
                              !.rejectedBy = "handler"]
             ELSE [rec EXCEPT !.hpc = "h_inc_get", !.incNow = now]]
    /\ UNCHANGED <<now, rl, cache, nReqs>>
    /\ UNCHANGED notH

\* handler: incrementRateLimit reads the window
HIncGet(r) ==
    /\ hReq[r].hpc = "h_inc_get"
    /\ LET rec == hReq[r]
           data == KvGet(rl[extractDomain(rec.url)], now)
       IN hReq' = [hReq EXCEPT ![r] =
             [rec EXCEPT !.hpc = "h_inc_set",
                !.wval = incrementValue(data, rec.incNow, DEFAULT_WINDOW_MS),
                !.wex = incrementEx(data, rec.incNow, DEFAULT_WINDOW_MS),
                !.wlim = incrementRateLimit(data, rec.incNow, DEFAULT_MAX_REQUESTS,
                                            DEFAULT_WINDOW_MS).limited]]
    /\ UNCHANGED <<now, rl, cache, nReqs>>
    /\ UNCHANGED notH

\* `switch (type)`: the scraper class of the case, or the default branch
SwitchBranch(type) ==
    IF type = "news" THEN "NewsScraper"
    ELSE IF type = "ecommerce" THEN "EcommerceScraper"
    ELSE IF type \in {"techdocs", "generic"} THEN "TechDocsScraper"
    ELSE "default"

\* handler: incrementRateLimit writes the window; 429 when limited, otherwise
\* the scraper is created and withTimeout(() => scraper.scrape(url)) starts;
\* the default branch of the switch answers 400
HIncSet(r) ==
    /\ hReq[r].hpc = "h_inc_set"
    /\ LET rec == hReq[r]
       IN /\ rl' = [rl EXCEPT ![extractDomain(rec.url)] = KvSet(rec.wval, rec.wex, now)]
          /\ hReq' = [hReq EXCEPT ![r] =
                IF rec.wlim
                THEN [ClearLocals(rec) EXCEPT !.hpc = "responded", !.status = 429,
                                              !.rejectedBy = "handler"]
                ELSE IF SwitchBranch(rec.type) = "default"
                THEN [ClearLocals(rec) EXCEPT !.hpc = "responded", !.status = 400,
                                              !.rejectedBy = "switch"]
                ELSE StartScrape(ClearLocals(rec))]
    /\ UNCHANGED <<now, cache, nReqs>>
    /\ UNCHANGED notH

\* a timer that also cancels the scrape task when it fires
HTimerCancels(r) ==
    /\ hReq[r].hpc = "h_await"
    /\ hReq' = [hReq EXCEPT ![r] =
          Deliver([ClearLocals(hReq[r]) EXCEPT !.spc = "s_done", !.out = Pending,
                                               !.retries = 0],
                  Rejected(createTimeoutError(ScrapeTimeoutMessage)))]
    /\ UNCHANGED <<now, rl, cache, nReqs>>
    /\ UNCHANGED notH

\* the timer of withTimeout fires while the handler awaits
HTimerFires(r) ==
    /\ hReq[r].hpc = "h_await"
    /\ hReq' = [hReq EXCEPT ![r] =
          Deliver(hReq[r], Rejected(createTimeoutError(ScrapeTimeoutMessage)))]
    /\ UNCHANGED <<now, rl, cache, nReqs>>
    /\ UNCHANGED notH

\* scraper.close(): browser.close() has finished, this.browser = null
HCloseDone(r) ==
    /\ hReq[r].hpc = "h_closing"
    /\ hReq' = [hReq EXCEPT ![r] =
          Respond([hReq[r] EXCEPT !.field = FALSE, !.hout = Pending], hReq[r].hout)]
    /\ UNCHANGED <<now, rl, cache, nReqs>>
    /\ UNCHANGED notH

\* scraper: checkRateLimit answers; a limited answer makes scrapeWithCache throw
SCheckGet(r) ==
    /\ hReq[r].hpc /= "new" /\ hReq[r].spc = "s_check_get"
    /\ LET rec == hReq[r]
           data == KvGet(rl[extractDomain(rec.url)], now)
           info == checkRateLimit(data, now, DEFAULT_MAX_REQUESTS, DEFAULT_WINDOW_MS)
       IN hReq' = [hReq EXCEPT ![r] =
             IF info.limited
             THEN TaskSettles([rec EXCEPT !.rejectedBy =
                                  IF rec.hpc = "h_await" THEN "scraper" ELSE @],
                              Rejected(GenericError(RateLimitMessage(rec.url))))
             ELSE [rec EXCEPT !.spc = "s_inc_get", !.incNow = now]]
    /\ UNCHANGED <<now, rl, cache, nReqs>>
    /\ UNCHANGED notH

\* scraper: incrementRateLimit reads the window
SIncGet(r) ==
    /\ hReq[r].hpc /= "new" /\ hReq[r].spc = "s_inc_get"
    /\ LET rec == hReq[r]
           data == KvGet(rl[extractDomain(rec.url)], now)
       IN hReq' = [hReq EXCEPT ![r] =
             [rec EXCEPT !.spc = "s_inc_set",
                !.wval = incrementValue(data, rec.incNow, DEFAULT_WINDOW_MS),
                !.wex = incrementEx(data, rec.incNow, DEFAULT_WINDOW_MS),
                !.wlim = incrementRateLimit(data, rec.incNow, DEFAULT_MAX_REQUESTS,
                                            DEFAULT_WINDOW_MS).limited]]
    /\ UNCHANGED <<now, rl, cache, nReqs>>
    /\ UNCHANGED notH

\* a scrapeWithCache that looks the cache up before it throws for the limit
SIncSetLookupFirst(r) ==
    /\ hReq[r].hpc /= "new" /\ hReq[r].spc = "s_inc_set"
    /\ LET rec == hReq[r]
       IN /\ rl' = [rl EXCEPT ![extractDomain(rec.url)] = KvSet(rec.wval, rec.wex, now)]
          /\ hReq' = [hReq EXCEPT ![r] =
                IF rec.wlim
                THEN AfterRateLimit([ClearLocals(rec) EXCEPT !.rejectedBy =
                                        IF rec.hpc = "h_await" THEN "scraper" ELSE @])
                ELSE AfterRateLimit(ClearLocals(rec))]
    /\ UNCHANGED <<now, cache, nReqs>>
    /\ UNCHANGED notH

\* scraper: incrementRateLimit writes the window; scrapeWithCache throws a
\* plain Error when limited and goes on to the cache otherwise
SIncSet(r) ==
    /\ hReq[r].hpc /= "new" /\ hReq[r].spc = "s_inc_set"
    /\ LET rec == hReq[r]
       IN /\ rl' = [rl EXCEPT ![extractDomain(rec.url)] = KvSet(rec.wval, rec.wex, now)]
          /\ hReq' = [hReq EXCEPT ![r] =
                IF rec.wlim
                THEN TaskSettles([rec EXCEPT !.rejectedBy =
                                     IF rec.hpc = "h_await" THEN "scraper" ELSE @],
                                 Rejected(GenericError(RateLimitMessage(rec.url))))
                ELSE AfterRateLimit(ClearLocals(rec))]
    /\ UNCHANGED <<now, cache, nReqs>>
    /\ UNCHANGED notH

\* cachedScrape: the lookup answers (or throws); a cached value settles the
\* task, a miss starts the scrape function
SCacheGet(r, ok) ==
    /\ hReq[r].hpc /= "new" /\ hReq[r].spc = "s_cache_get"
    /\ LET rec == hReq[r]
           k == cacheKeyText(rec.url, <<>>, "scrape")
           got == getCachedValue(cache[k], now, ok)
           rec1 == [rec EXCEPT !.cacheFault = @ \/ ~ok, !.cacheRead = TRUE,
                               !.ttlExpired = cache[k] /= Null /\ KvGet(cache[k], now) = Null]
       IN hReq' = [hReq EXCEPT ![r] =
             IF IsCached(got.value)
             THEN TaskSettles(rec1, Fulfilled(got.value))
             ELSE [rec1 EXCEPT !.spc = "s_launch", !.br = "launching",
                               !.launched = TRUE]]
    /\ UNCHANGED <<now, rl, cache, nReqs>>
    /\ UNCHANGED notH

\* initBrowser: launchBrowser resolves and this.browser is set, or it throws
SLaunchDone(r, ok) ==
    /\ hReq[r].hpc /= "new" /\ hReq[r].spc = "s_launch"
    /\ hReq' = [hReq EXCEPT ![r] =
          IF ok
          THEN [hReq[r] EXCEPT !.spc = "s_page", !.br = "open", !.field = TRUE]
          ELSE TaskSettles([hReq[r] EXCEPT !.br = "none"], Rejected(LaunchError))]
    /\ UNCHANGED <<now, rl, cache, nReqs>>
    /\ UNCHANGED notH

\* createPage: fails when the browser has been closed meanwhile
SPageCreated(r) ==
    /\ hReq[r].hpc /= "new" /\ hReq[r].spc = "s_page"
    /\ hReq' = [hReq EXCEPT ![r] =
          IF hReq[r].br = "open"
          THEN [hReq[r] EXCEPT !.spc = "s_nav", !.retries = 0]
          ELSE TaskSettles(hReq[r], Rejected(PageError))]
    /\ UNCHANGED <<now, rl, cache, nReqs>>
    /\ UNCHANGED notH

\* navigateToUrl: one page.goto; the loop of navigateToUrl decides what follows
SNavGoto(r, ok) ==
    /\ hReq[r].hpc /= "new" /\ hReq[r].spc = "s_nav"
    /\ hReq[r].retries < hReq[r].opts.maxRetries
    /\ LET rec == [hReq[r] EXCEPT !.navigated = TRUE]
       IN hReq' = [hReq EXCEPT ![r] =
             IF ok /\ rec.br = "open"
             THEN [rec EXCEPT !.spc = "s_extract"]
             ELSE IF rec.retries + 1 >= rec.opts.maxRetries
             THEN [rec EXCEPT !.retries = @ + 1, !.spc = "s_page_close",
                              !.out = Rejected(IF rec.br = "open" THEN GotoError
                                               ELSE PageError)]
             ELSE [rec EXCEPT !.retries = @ + 1, !.spc = "s_nav_wait"]]
    /\ UNCHANGED <<now, rl, cache, nReqs>>
    /\ UNCHANGED notH

\* navigateToUrl: the one-second sleep between attempts ends
SNavWake(r) ==
    /\ hReq[r].hpc /= "new" /\ hReq[r].spc = "s_nav_wait"
    /\ hReq' = [hReq EXCEPT ![r].spc = "s_nav"]
    /\ UNCHANGED <<now, rl, cache, nReqs>>
    /\ UNCHANGED notH

\* the extract...Data function of the scraper builds the result
SExtract(r, x) ==
    /\ hReq[r].hpc /= "new" /\ hReq[r].spc = "s_extract"
    /\ LET rec == hReq[r]
       IN hReq' = [hReq EXCEPT ![r] =
             [rec EXCEPT !.spc = "s_page_close",
                !.out = IF rec.br = "open"
                        THEN Fulfilled([url |-> rec.url, by |-> rec.type,
                                        content |-> x.content, summary |-> x.summary,
                                        timestamp |-> now])
                        ELSE Rejected(PageError)]]
    /\ UNCHANGED <<now, rl, cache, nReqs>>
    /\ UNCHANGED notH

\* finally { await page.close() }: then the scrape function settles, and
\* getOrSetCachedValue stores a value before it returns it
SPageClose(r) ==
    /\ hReq[r].hpc /= "new" /\ hReq[r].spc = "s_page_close"
    /\ LET rec == hReq[r]
       IN hReq' = [hReq EXCEPT ![r] =
             IF rec.br /= "open"
             THEN TaskSettles(rec, Rejected(PageError))
             ELSE IF rec.out.state = "rejected"
             THEN TaskSettles(rec, rec.out)
             ELSE IF rec.opts.cacheEnabled
             THEN [rec EXCEPT !.spc = "s_cache_set"]
             ELSE TaskSettles(rec, rec.out)]
    /\ UNCHANGED <<now, rl, cache, nReqs>>
    /\ UNCHANGED notH

\* setCachedValue settles; the task resolves with the value
SCacheSet(r, ok) ==
    /\ hReq[r].hpc /= "new" /\ hReq[r].spc = "s_cache_set"
    /\ LET rec == hReq[r]
           k == cacheKeyText(rec.url, <<>>, "scrape")
           put == setCachedValue(cache[k], Serialize(rec.out.value),
                                 cachedScrapeTtl(rec.opts.cacheTtl), now, ok)
       IN /\ cache' = [cache EXCEPT ![k] = put.entry]
          /\ hReq' = [hReq EXCEPT ![r] =
                TaskSettles([rec EXCEPT !.cacheFault = @ \/ ~ok], rec.out)]
    /\ UNCHANGED <<now, rl, nReqs>>
    /\ UNCHANGED notH

\* the clock advances between two requests: its step is longer than the
\* time withTimeout gives a scrape
HTick ==
    /\ now + HandlerTickMs <= MaxHandlerTime
    /\ \A r \in 1..nReqs : HFinished(r) /\ SFinished(r)
    /\ now' = now + HandlerTickMs
    /\ UNCHANGED <<rl, cache, hReq, nReqs>>
    /\ UNCHANGED notH

NextH ==
    \/ \E t \in ScraperTypes, u \in Urls, o \in OptionSets : HBegin(t, u, o)
    \/ \E r \in 1..MaxReqs : HCheckGet(r)
    \/ \E r \in 1..MaxReqs : HIncGet(r)
    \/ \E r \in 1..MaxReqs : HIncSet(r)
    \/ \E r \in 1..MaxReqs : HTimerFires(r)
    \/ \E r \in 1..MaxReqs : HCloseDone(r)
    \/ \E r \in 1..MaxReqs : SCheckGet(r)
    \/ \E r \in 1..MaxReqs : SIncGet(r)
    \/ \E r \in 1..MaxReqs : SIncSet(r)
    \/ \E r \in 1..MaxReqs, ok \in BOOLEAN : SCacheGet(r, ok)
    \/ \E r \in 1..MaxReqs, ok \in BOOLEAN : SLaunchDone(r, ok)
    \/ \E r \in 1..MaxReqs : SPageCreated(r)
    \/ \E r \in 1..MaxReqs, ok \in BOOLEAN : SNavGoto(r, ok)
    \/ \E r \in 1..MaxReqs : SNavWake(r)
    \/ \E r \in 1..MaxReqs, x \in Extracts : SExtract(r, x)
    \/ \E r \in 1..MaxReqs : SPageClose(r)
    \/ \E r \in 1..MaxReqs, ok \in BOOLEAN : SCacheSet(r, ok)
    \/ HTick

SpecH == InitH /\ [][NextH]_vars

\* C3: once a request has been answered and its scrape task (abandoned or
\* not) has finished, no browser launched for it is still open.
C3_BrowserClosedOnEveryPath ==
    \A r \in 1..MaxReqs :
        (HFinished(r) /\ SFinished(r)) => hReq[r].br /= "open"

\* C5: a request that the rate limiter rejected, in the handler or in the
\* scraper, is answered with status 429.
C5_RateLimitRejectionIs429 ==
    \A r \in 1..MaxReqs :
        (HFinished(r) /\ hReq[r].rejectedBy /= "none") => hReq[r].status = 429

\* a scrape of the same url as an earlier, successful one, both with
\* cacheEnabled, that the rate limiter admitted and that found no expired entry
C7_Pair(r1, r2) ==
    /\ r1 < r2 /\ r2 <= nReqs
    /\ hReq[r1].url = hReq[r2].url
    /\ hReq[r1].opts.cacheEnabled /\ hReq[r2].opts.cacheEnabled
    /\ hReq[r1].status = 200
    /\ hReq[r2].rejectedBy = "none" /\ hReq[r2].status /= 429
    /\ ~hReq[r2].ttlExpired

C7_SecondIsServedFromCache(r1, r2) ==
    /\ ~hReq[r2].launched
    /\ ~hReq[r2].navigated
    /\ hReq[r2].status = 200 => hReq[r2].data = hReq[r1].data

ComponentsIdle ==
    /\ now = 0
    /\ maxRequests = 1
    /\ RLIdle
    /\ CacheIdle
    /\ TOIdle
    /\ RTIdle
    /\ HIdle
    /\ PXIdle

MaxPieces == 3     \* pieces of text per error message

\* pieces of text an error message is made of
MessagePieces ==
    {"timeout", "timed out", "net::", "network", "browser", "puppeteer",
     "Timeout", "failed"}

RECURSIVE SeqsUpTo(_, _)
SeqsUpTo(S, n) ==
    IF n = 0 THEN {<<>>}
    ELSE LET shorter == SeqsUpTo(S, n - 1)
         IN shorter \cup {Append(q, x) : q \in shorter, x \in S}

ErrorMessages == SeqsUpTo(MessagePieces, MaxPieces)

\* values a caller can hand to handleError: ScrapingErrors of every kind,
\* generic Errors, and thrown values that are no Error
ThrownValues ==
    {ScrapingError(m, t[1], t[2]) :
        m \in SeqsUpTo({"timeout", "failed"}, 1),
        t \in {<<"VALIDATION_ERROR", 400>>, <<"RATE_LIMIT_ERROR", 429>>,
               <<"TIMEOUT_ERROR", 408>>, <<"SCRAPING_ERROR", 500>>,
               <<"NETWORK_ERROR", 503>>, <<"BROWSER_ERROR", 500>>,
               <<"INTERNAL_ERROR", 500>>, <<"NOT_FOUND_ERROR", 404>>}}
    \cup {GenericError(m) : m \in ErrorMessages}
    \cup {ThrownValue, [kind |-> "thrown", message |-> <<"timeout">>]}

InitHE ==
    /\ ComponentsIdle
    /\ fnArgs \in ThrownValues
    /\ fnResult = <<>>
    /\ fnPc = "called"

\* handleError(error) returns
HEReturns ==
    /\ fnPc = "called"
    /\ fnResult' = handleError(fnArgs)
    /\ fnPc' = "returned"
    /\ UNCHANGED fnArgs
    /\ UNCHANGED notFn

\* the result is handed to handleError again (withTimeout's catch, then the
\* catch of the route handler)
HEAgain ==
    /\ fnPc = "returned"
    /\ fnArgs /= fnResult
    /\ fnArgs' = fnResult
    /\ fnPc' = "called"
    /\ UNCHANGED fnResult
    /\ UNCHANGED notFn

NextHE == HEReturns \/ HEAgain

SpecHE == InitHE /\ [][NextHE]_vars

\* C12: handleError returns a ScrapingError for every value; a ScrapingError
\* comes back as it is (so a second handleError changes nothing); a generic
\* Error is Timeout/408 if its message has "timeout" or "timed out", else
\* Network/503 if it has "net::" or "network", else Browser/500 if it has
\* "browser" or "puppeteer", else Internal/500; every other value is
\* Internal/500.
C12_HandleErrorClassifies ==
    fnPc = "returned" =>
        LET e == fnArgs
            r == fnResult
            has(piece) == \E i \in DOMAIN e.message : e.message[i] = piece
            class == <<r.type, r.statusCode>>
        IN /\ r.kind = "ScrapingError"
           /\ handleError(r) = r
           /\ e.kind = "ScrapingError" => r = e
           /\ e.kind = "Error" =>
                 class = (IF has("timeout") \/ has("timed out")
                          THEN <<"TIMEOUT_ERROR", 408>>
                          ELSE IF has("net::") \/ has("network")
                          THEN <<"NETWORK_ERROR", 503>>
                          ELSE IF has("browser") \/ has("puppeteer")
                          THEN <<"BROWSER_ERROR", 500>>
                          ELSE <<"INTERNAL_ERROR", 500>>)
           /\ e.kind \notin {"ScrapingError", "Error"} =>
                 class = <<"INTERNAL_ERROR", 500>>

\* C12 witness: a generic Error whose message has "puppeteer" and then
\* "timeout" has been classified Timeout, the first match
C12_Witness ==
    /\ fnPc = "returned"
    /\ fnArgs.kind = "Error"
    /\ Len(fnArgs.message) >= 2
    /\ fnArgs.message[1] = "puppeteer" /\ fnArgs.message[2] = "timeout"
    /\ fnResult.type = "TIMEOUT_ERROR" /\ fnResult.statusCode = 408

(***************************************************************************)
(* Single-value field resolvers of NewsScraper and EcommerceScraper        *)
(* (extractArticleTitle, extractArticleContent, extractPrice, ...) and the *)
(* extract...Data functions that call them.  A text is a sequence of       *)
(* characters.                                                             *)
(***************************************************************************)
MaxMatching == 2            \* strategies of a field that find an element
CONTENT_MIN_LENGTH == 100   \* `content.length > 100`

EmptyText == <<>>
BlankText == <<" ">>
PaddedText == <<" ", "a", " ">>
Text100 == [i \in 1..CONTENT_MIN_LENGTH |-> "y"]
LongText == [i \in 1..(CONTENT_MIN_LENGTH + 1) |-> "x"]
NotAvailable == <<"N", "/", "A">>

RawTexts == {EmptyText, BlankText, PaddedText, Text100, LongText}

\* String.prototype.trim
RECURSIVE TrimLeft(_)
TrimLeft(t) == IF t /= <<>> /\ Head(t) = " " THEN TrimLeft(Tail(t)) ELSE t
RECURSIVE TrimRight(_)
TrimRight(t) ==
    IF t /= <<>> /\ t[Len(t)] = " " THEN TrimRight(SubSeq(t, 1, Len(t) - 1)) ELSE t
Trim(t) == TrimRight(TrimLeft(t))

\* what a query of the page does: it throws (no element, or the evaluation
\* fails) or it yields the raw text / outerHTML / attribute of the element
QueryThrows == [threw |-> TRUE, text |-> EmptyText]
QueryYields(t) == [threw |-> FALSE, text |-> t]

\* a value of a result field: a string or undefined
StringValue(t) == [defined |-> TRUE, text |-> t]
UndefinedValue == [defined |-> FALSE, text |-> EmptyText]

Repeat(kind, n) == [i \in 1..n |-> kind]

\* the fields: the kinds of their strategies in declared order ("text":
\* extractText, "html": extractHtml, "attr": a guarded $eval of an attribute),
\* the length a value must exceed, and the fallback
Fields ==
    {[scraper |-> "news", name |-> "title", kinds |-> Repeat("text", 8),
      minLen |-> 0, fallback |-> "pageTitle"],
     [scraper |-> "news", name |-> "content", kinds |-> Repeat("text", 7),
      minLen |-> CONTENT_MIN_LENGTH, fallback |-> "bodyText"],
     [scraper |-> "news", name |-> "html", kinds |-> Repeat("html", 7),
      minLen |-> CONTENT_MIN_LENGTH, fallback |-> "bodyHtml"],
     [scraper |-> "news", name |-> "category", kinds |-> Repeat("text", 4) \o <<"attr">>,
      minLen |-> 0, fallback |-> "undefined"],
     [scraper |-> "news", name |-> "summary", kinds |-> Repeat("text", 5) \o <<"attr">>,
      minLen |-> 0, fallback |-> "undefined"],
     [scraper |-> "ecommerce", name |-> "title", kinds |-> Repeat("text", 6),
      minLen |-> 0, fallback |-> "pageTitle"],
     [scraper |-> "ecommerce", name |-> "content", kinds |-> Repeat("text", 6) \o <<"attr">>,
      minLen |-> 0, fallback |-> "empty"],
     [scraper |-> "ecommerce", name |-> "html", kinds |-> Repeat("html", 6),
      minLen |-> 0, fallback |-> "empty"],
     [scraper |-> "ecommerce", name |-> "price", kinds |-> Repeat("text", 8) \o <<"attr">>,
      minLen |-> 0, fallback |-> "N/A"]}

FieldsOf(scraper) == {f \in Fields : f.scraper = scraper}

\* extractText trims inside the page; extractHtml and the attribute queries
\* return the text as it is; every one of them returns '' when the query throws
extractText(out) == IF out.threw THEN EmptyText ELSE Trim(out.text)
extractHtml(out) == IF out.threw THEN EmptyText ELSE out.text
strategyValue(kind, out) ==
    IF kind = "text" THEN extractText(out) ELSE extractHtml(out)

\* `if (title)`, `if (content && content.length > 100)`
acceptsAny(field, value) == value /= EmptyText
accepts(field, value) == value /= EmptyText /\ Len(value) > field.minLen

\* the fallback after the loop; page.title() is awaited outside any try
resolveFallback(field, page) ==
    CASE field.fallback = "pageTitle" ->
            IF page.titleOut.threw THEN [threw |-> TRUE, value |-> UndefinedValue]
            ELSE [threw |-> FALSE, value |-> StringValue(page.titleOut.text)]
      [] field.fallback = "bodyText" ->
            [threw |-> FALSE, value |-> StringValue(extractText(page.bodyOut))]
      [] field.fallback = "bodyHtml" ->
            [threw |-> FALSE, value |-> StringValue(extractHtml(page.bodyOut))]
      [] field.fallback = "empty" ->
            [threw |-> FALSE, value |-> StringValue(EmptyText)]
      [] field.fallback = "N/A" ->
            [threw |-> FALSE, value |-> StringValue(NotAvailable)]
      [] OTHER -> [threw |-> FALSE, value |-> UndefinedValue]

\* `for (const selector of selectors)`: the first accepted value is returned
RECURSIVE resolveFrom(_, _, _, _)
resolveFrom(field, outs, page, i) ==
    IF i > Len(field.kinds) THEN resolveFallback(field, page)
    ELSE LET value == strategyValue(field.kinds[i], outs[i])
         IN IF accepts(field, value)
            THEN [threw |-> FALSE, value |-> StringValue(value)]
            ELSE resolveFrom(field, outs, page, i + 1)

\* the outcomes of the strategies of a field on a page: the page gives them
\* for the field under study, no other field finds an element
OutsOf(field, page) ==
    IF field = page.field THEN page.outs
    ELSE [i \in 1..Len(field.kinds) |-> QueryThrows]

resolveField(field, page) == resolveFrom(field, OutsOf(field, page), page, 1)

\* extractArticleData / extractProductData: the fields are awaited one after
\* another, so the first resolver that throws makes the function throw
extractData(scraper, page) ==
    LET fs == FieldsOf(scraper)
    IN IF \E f \in fs : resolveField(f, page).threw
       THEN [threw |-> TRUE, fields |-> <<>>]
       ELSE [threw |-> FALSE,
             fields |-> [n \in {f.name : f \in fs} |->
                           resolveField(CHOOSE f \in fs : f.name = n, page).value]]

\* pages: at most MaxMatching strategies of the field find an element
RECURSIVE OutsWith(_, _)
OutsWith(n, k) ==
    IF k = 0 THEN {[i \in 1..n |-> QueryThrows]}
    ELSE LET fewer == OutsWith(n, k - 1)
         IN fewer \cup {[outs EXCEPT ![i] = QueryYields(t)] :
                           outs \in fewer, i \in 1..n, t \in RawTexts}

PagesOf(field) ==
    {[field |-> field, outs |-> outs, titleOut |-> t, bodyOut |-> b] :
           outs \in OutsWith(Len(field.kinds), MaxMatching),
           t \in {QueryThrows, QueryYields(EmptyText), QueryYields(<<"T">>)},
           b \in {QueryThrows, QueryYields(PaddedText)}}

InitFR ==
    /\ ComponentsIdle
    /\ \E f \in Fields : fnArgs \in PagesOf(f)
    /\ fnResult = <<>>
    /\ fnPc = "called"

\* extractArticleData / extractProductData returns or throws; the value of
\* the field under study is kept beside the result
FRReturns ==
    /\ fnPc = "called"
    /\ fnResult' = [field |-> resolveField(fnArgs.field, fnArgs),
                    data |-> extractData(fnArgs.field.scraper, fnArgs)]
    /\ fnPc' = "returned"
    /\ UNCHANGED fnArgs
    /\ UNCHANGED notFn

NextFR == FRReturns

SpecFR == InitFR /\ [][NextFR]_vars

\* every query of the field under study failed or gave an empty text
FRAllEmpty ==
    \A i \in 1..Len(fnArgs.outs) : fnArgs.outs[i].threw \/ Trim(fnArgs.outs[i].text) = EmptyText

\* C13: whatever queries fail (the strategies of a field, the page-title
\* fallback), the extraction returns a result, and a field none of whose
\* queries succeeded has its fallback value.
C13_FieldFailuresNeverAbort ==
    fnPc = "returned" =>
        /\ ~fnResult.data.threw
        /\ FRAllEmpty =>
              fnResult.data.fields[fnArgs.field.name] =
                 resolveFallback(fnArgs.field, fnArgs).value

\* the first strategy, in declared order, whose trimmed value is non-empty (0: none)
FRFirstNonEmpty ==
    LET hits == {i \in 1..Len(fnArgs.outs) :
                    ~fnArgs.outs[i].threw /\ Trim(fnArgs.outs[i].text) /= EmptyText}
    IN IF hits = {} THEN 0 ELSE CHOOSE i \in hits : \A j \in hits : i <= j

\* the first strategy, in declared order, whose value the field accepts:
\* non-empty (after the trim of extractText for text strategies, as it is for
\* outerHTML and attribute strategies) and longer than the field's minimum
FRFirstAccepted ==
    LET f == fnArgs.field
        val(i) == IF f.kinds[i] = "text" THEN Trim(fnArgs.outs[i].text)
                  ELSE fnArgs.outs[i].text
        hits == {i \in 1..Len(fnArgs.outs) :
                    /\ ~fnArgs.outs[i].threw
                    /\ val(i) /= EmptyText
                    /\ Len(val(i)) > f.minLen}
    IN IF hits = {} THEN 0 ELSE CHOOSE i \in hits : \A j \in hits : i <= j

\* the resolver returned the value of strategy i, or the fallback when i = 0
FRReturned(i) ==
    /\ ~fnResult.field.threw
    /\ IF i = 0
       THEN fnResult.field = resolveFallback(fnArgs.field, fnArgs)
       ELSE fnResult.field.value =
               StringValue(strategyValue(fnArgs.field.kinds[i], fnArgs.outs[i]))

----------------------------------------------------------------------------
\* generateCacheKey: the key text is built from the namespace, the url and the
\* parameters sorted by key, encoded in base64, and every '+', '/' and '='
\* of the encoding is replaced by '_'.  Texts are sequences of characters.

MaxParams == 2

\* the UTF-8 byte of a character (all characters of the model are ASCII)
CharCode(c) ==
    CASE c = "\"" -> 34 [] c = "1" -> 49 [] c = ":" -> 58
      [] c = ">" -> 62 [] c = "?" -> 63 [] c = "a" -> 97 [] c = "b" -> 98
      [] c = "c" -> 99 [] c = "e" -> 101 [] c = "p" -> 112 [] c = "r" -> 114
      [] c = "s" -> 115 [] c = "u" -> 117 [] c = "|" -> 124

B64Alphabet ==
    <<"A", "B", "C", "D", "E", "F", "G", "H", "I", "J", "K", "L", "M",
      "N", "O", "P", "Q", "R", "S", "T", "U", "V", "W", "X", "Y", "Z",
      "a", "b", "c", "d", "e", "f", "g", "h", "i", "j", "k", "l", "m",
      "n", "o", "p", "q", "r", "s", "t", "u", "v", "w", "x", "y", "z",
      "0", "1", "2", "3", "4", "5", "6", "7", "8", "9", "+", "/">>

\* Buffer.from(text).toString('base64'): three bytes give four sextets, a
\* tail of one or two bytes is padded with '='
RECURSIVE base64(_)
base64(t) ==
    LET b(i) == CharCode(t[i])
        d(n) == B64Alphabet[n + 1]
    IN CASE Len(t) = 0 -> <<>>
         [] Len(t) = 1 -> <<d(b(1) \div 4), d((b(1) % 4) * 16), "=", "=">>
         [] Len(t) = 2 -> <<d(b(1) \div 4), d((b(1) % 4) * 16 + b(2) \div 16),
                            d((b(2) % 16) * 4), "=">>
         [] OTHER -> <<d(b(1) \div 4), d((b(1) % 4) * 16 + b(2) \div 16),
                       d((b(2) % 16) * 4 + b(3) \div 64), d(b(3) % 64)>>
                     \o base64(SubSeq(t, 4, Len(t)))

\* .replace(/[+/=]/g, '_')
urlSafe(t) == [i \in 1..Len(t) |-> IF t[i] \in {"+", "/", "="} THEN "_" ELSE t[i]]

\* JSON.stringify of a number or of a string without quotes or backslashes
JSONStringify(v) ==
    IF v.type = "string" THEN <<"\"">> \o v.text \o <<"\"">> ELSE v.text

\* the order of Array.prototype.sort() on strings: by code units
RECURSIVE StrLess(_, _)
StrLess(x, y) ==
    CASE x = <<>> -> y /= <<>>
      [] y = <<>> -> FALSE
      [] CharCode(Head(x)) /= CharCode(Head(y)) -> CharCode(Head(x)) < CharCode(Head(y))
      [] OTHER -> StrLess(Tail(x), Tail(y))

\* Object.keys(params): the keys in insertion order
ObjectKeys(params) == [i \in 1..Len(params) |-> params[i].key]

\* .sort()
RECURSIVE SortStrings(_)
SortStrings(ks) ==
    IF ks = <<>> THEN <<>>
    ELSE LET m == CHOOSE i \in 1..Len(ks) : \A j \in 1..Len(ks) : ~StrLess(ks[j], ks[i])
         IN <<ks[m]>> \o SortStrings(SubSeq(ks, 1, m - 1) \o SubSeq(ks, m + 1, Len(ks)))

\* params[key]
ParamValue(params, k) == (CHOOSE i \in 1..Len(params) : params[i].key = k)

RECURSIVE JoinWith(_, _)
JoinWith(parts, sep) ==
    IF parts = <<>> THEN <<>>
    ELSE IF Len(parts) = 1 THEN parts[1]
    ELSE parts[1] \o sep \o JoinWith(Tail(parts), sep)

UnsortedKeys(params) == ObjectKeys(params)
SortedKeys(params) == SortStrings(ObjectKeys(params))

generateCacheKey(url, params, namespace) ==
    LET keys == SortedKeys(params)
        paramsString ==
            JoinWith([i \in 1..Len(keys) |->
                        keys[i] \o <<":">> \o
                        JSONStringify(params[ParamValue(params, keys[i])].value)],
                     <<"|">>)
        key == namespace \o <<":">> \o url \o
               (IF paramsString /= <<>> THEN <<":">> \o paramsString ELSE <<>>)
    IN urlSafe(base64(key))

ScrapeNamespace == <<"s", "c", "r", "a", "p", "e">>

CKUrls == {<<"u">>, <<"u", ">">>, <<"u", "?">>, <<"u", ":", "a", ":", "1">>}
CKKeys == {<<"a">>, <<"b">>, <<"a", ":", "1", "|", "b">>}
CKValues == {[type |-> "number", text |-> <<"1">>],
             [type |-> "string", text |-> <<"1">>]}

\* objects with at most n own properties, as the sequence of their entries
\* in insertion order
RECURSIVE ParamsUpTo(_)
ParamsUpTo(n) ==
    IF n = 0 THEN {<<>>}
    ELSE LET fewer == ParamsUpTo(n - 1)
         IN fewer \cup {Append(p, [key |-> k, value |-> v]) :
                           p \in {q \in fewer : Len(q) = n - 1},
                           k \in CKKeys, v \in CKValues}

CKParams == {p \in ParamsUpTo(MaxParams) :
                \A i, j \in 1..Len(p) : p[i].key = p[j].key => i = j}

CKInputs == [url : CKUrls, params : CKParams]

\* the object a sequence of entries stands for
ParamsObject(params) == {params[i] : i \in 1..Len(params)}

InitCK ==
    /\ ComponentsIdle
    /\ \E a, b \in CKInputs : fnArgs = [a |-> a, b |-> b]
    /\ fnResult = <<>>
    /\ fnPc = "called"

\* generateCacheKey is applied to both inputs
CKReturns ==
    /\ fnPc = "called"
    /\ fnResult' = [a |-> generateCacheKey(fnArgs.a.url, fnArgs.a.params, ScrapeNamespace),
                    b |-> generateCacheKey(fnArgs.b.url, fnArgs.b.params, ScrapeNamespace)]
    /\ fnPc' = "returned"
    /\ UNCHANGED fnArgs
    /\ UNCHANGED notFn

NextCK == CKReturns

SpecCK == InitCK /\ [][NextCK]_vars

\* the two inputs are the same (url, params): same url, same properties
CKSameInput ==
    /\ fnArgs.a.url = fnArgs.b.url
    /\ ParamsObject(fnArgs.a.params) = ParamsObject(fnArgs.b.params)

\* C15: generateCacheKey is injective: two inputs that differ in the url or
\* in the parameters never get the same key.
C15_CacheKeyInjective ==
    (fnPc = "returned" /\ fnResult.a = fnResult.b) => CKSameInput

\* C16: the key does not depend on the order in which the parameters were
\* inserted: the same url with the same properties gives the same key.
C16_KeyIgnoresInsertionOrder ==
    (fnPc = "returned" /\ CKSameInput) => fnResult.a = fnResult.b

\* C16 witness: the same two properties inserted in opposite orders, one key
C16_Witness ==
    /\ fnPc = "returned"
    /\ CKSameInput
    /\ Len(fnArgs.a.params) = 2
    /\ fnArgs.a.params /= fnArgs.b.params
    /\ fnResult.a = fnResult.b

----------------------------------------------------------------------------
\* the generic errors a scrape can raise, and those of them that handleError
\* leaves unclassified
ScrapeErrors ==
    {PageError, LaunchError, GotoError} \cup
    {GenericError(RateLimitMessage(u)) : u \in Urls}

UnclassifiedErrors == {e \in ScrapeErrors : handleError(e).type = "INTERNAL_ERROR"}

\* C17: the error field of a failure response never contains the raw message
\* text of an unclassified error raised during the scrape (the handler has no
\* debug mode).
C17_NoRawInternalText ==
    \A r \in DOMAIN hReq :
        (hReq[r].hpc = "responded" /\ hReq[r].status /= 200) =>
            \A e \in UnclassifiedErrors :
                \A i \in DOMAIN e.message : ~Includes(hReq[r].errmsg, e.message[i])

----------------------------------------------------------------------------
\* Multi-item fields of EcommerceScraper: extractVariants and
\* extractSpecifications walk a chain of container selectors.

MaxRows == 2

\* what a container selector finds: nothing (waitForSelector returns false),
\* elements whose $$eval throws, or elements whose $$eval yields rows
ContainerAbsent == [exists |-> FALSE, threw |-> FALSE, rows |-> <<>>]
ContainerThrows == [exists |-> TRUE, threw |-> TRUE, rows |-> <<>>]
ContainerRows(rows) == [exists |-> TRUE, threw |-> FALSE, rows |-> rows]

\* `${containerSelector}`: a container with its name and its value elements
VariantRows ==
    {[name |-> n, values |-> vs] :
        n \in {"", "Size"},
        vs \in {<<>>, <<[value |-> "S", available |-> TRUE, price |-> ""]>>}}

\* `${tableSelector} tr`, `${dlSelector} dt, dd`: a row with its name and value
SpecificationRows ==
    {[name |-> "Weight", value |-> "1kg"], [name |-> "", value |-> "1kg"],
     [name |-> "Weight", value |-> ""]}

\* the four variant containers; the four tables and the three definition
\* lists, each list inside the table container of the same position
VariantSelectors == 1..4
TableSelectors == 1..4
DlSelectors == 5..7

\* `if (variant.name && variant.values.length > 0) for (value of values) push`
RECURSIVE formatVariants(_)
formatVariants(data) ==
    IF data = <<>> THEN <<>>
    ELSE (IF Head(data).name /= "" /\ Len(Head(data).values) > 0
          THEN [i \in 1..Len(Head(data).values) |->
                  [name |-> Head(data).name,
                   value |-> Head(data).values[i].value,
                   price |-> IF Head(data).values[i].price = "" THEN "undefined"
                             ELSE Head(data).values[i].price,
                   available |-> Head(data).values[i].available]]
          ELSE <<>>)
         \o formatVariants(Tail(data))

\* `if (spec.name && spec.value) push`
formatSpecifications(rows) ==
    SelectSeq(rows, LAMBDA spec : spec.name /= "" /\ spec.value /= "")

\* a heading of the result; id is "undefined" when there is none
Heading(level, text, id) == [level |-> level, text |-> text, id |-> id]

\* `${selector} a`: the links of a table of contents are mapped to their
\* trimmed text, the id of a '#...' href and a level (the level-N class of
\* the parent, else the nesting depth of lists, at least 1), and the links
\* without text are filtered out
formatToc(links) ==
    LET level0(l) == IF l.classLevel = 0 THEN 1 ELSE l.classLevel
        level(l) == IF level0(l) = 1 THEN (IF l.depth > 1 THEN l.depth ELSE 1)
                    ELSE level0(l)
        id(l) == IF l.href /= <<>> /\ Head(l.href) = "#" THEN Tail(l.href)
                 ELSE "undefined"
        mapped == [i \in 1..Len(links) |->
                     Heading(level(links[i]), Trim(links[i].textContent), id(links[i]))]
    IN SelectSeq(mapped, LAMBDA h : h.text /= EmptyText)

\* the items a selector contributes: none when the container does not
\* exist (`continue`) or the query throws (`catch`)
ContainerItems(kind, c) ==
    IF ~c.exists \/ c.threw THEN <<>>
    ELSE IF kind = "variants" THEN formatVariants(c.rows)
    ELSE IF kind = "toc" THEN formatToc(c.rows)
    ELSE formatSpecifications(c.rows)

\* every selector's items pushed to the one array
RECURSIVE chainMerged(_, _, _)
chainMerged(kind, chain, i) ==
    IF i > Len(chain) THEN <<>>
    ELSE ContainerItems(kind, chain[i]) \o chainMerged(kind, chain, i + 1)

\* `for (selector of selectors) { ...; if (items.length > 0) return items }`
RECURSIVE chainItems(_, _, _)
chainItems(kind, chain, i) ==
    IF i > Len(chain) THEN <<>>
    ELSE IF ContainerItems(kind, chain[i]) /= <<>>
         THEN ContainerItems(kind, chain[i])
         ELSE chainItems(kind, chain, i + 1)

\* `return items.length > 0 ? items : undefined`
extractItems(kind, chain) ==
    LET items == chainItems(kind, chain, 1)
    IN [defined |-> items /= <<>>, items |-> items]

extractVariants(chain) == extractItems("variants", chain)
extractSpecifications(chain) == extractItems("specifications", chain)

\* pages on which the containers of at most two selectors exist
MIOutcomes(rowKinds) ==
    {ContainerThrows} \cup {ContainerRows(r) : r \in SeqsUpTo(rowKinds, MaxRows)}

MIChains(selectors, rowKinds) ==
    {[i \in selectors |-> IF i = a THEN x ELSE IF i = b THEN y ELSE ContainerAbsent] :
        a \in selectors, b \in selectors \cup {0},
        x \in MIOutcomes(rowKinds), y \in MIOutcomes(rowKinds)}
    \cup {[i \in selectors |-> ContainerAbsent]}

MIPages(kind) ==
    IF kind = "variants"
    THEN {[kind |-> kind, chain |-> c] : c \in MIChains(VariantSelectors, VariantRows)}
    ELSE {[kind |-> kind, chain |-> c] :
             c \in {d \in MIChains(TableSelectors \cup DlSelectors, SpecificationRows) :
                       \A i \in DlSelectors : d[i].exists => d[i - 4].exists}}

InitMI ==
    /\ ComponentsIdle
    /\ \E kind \in {"variants", "specifications"} : fnArgs \in MIPages(kind)
    /\ fnResult = <<>>
    /\ fnPc = "called"

MIReturns ==
    /\ fnPc = "called"
    /\ fnResult' = IF fnArgs.kind = "variants" THEN extractVariants(fnArgs.chain)
                   ELSE extractSpecifications(fnArgs.chain)
    /\ fnPc' = "returned"
    /\ UNCHANGED fnArgs
    /\ UNCHANGED notFn

NextMI == MIReturns

SpecMI == InitMI /\ [][NextMI]_vars

\* the first selector of the chain, among those in S, or 0
MIFirst(S) == IF S = {} THEN 0 ELSE CHOOSE i \in S : \A j \in S : i <= j

\* the result is the items of selector i alone, or undefined when i = 0
MIDecidedBy(i) ==
    IF i = 0 THEN ~fnResult.defined
    ELSE fnResult.items = ContainerItems(fnArgs.kind, fnArgs.chain[i])

----------------------------------------------------------------------------
\* TechDocsScraper: the table of contents and its fallback to the headings

MaxHeadings == 2

TocSelectors == 1..5

TocLinks ==
    {[textContent |-> <<" ">>, href |-> <<"#", "a">>, classLevel |-> 0, depth |-> 1],
     [textContent |-> <<"A", " ">>, href |-> <<"#", "a">>, classLevel |-> 2, depth |-> 1]}

\* h1..h6 elements of the page
HeadingElements ==
    {[tagLevel |-> 1, textContent |-> <<" ", "T">>, id |-> "t"],
     [tagLevel |-> 3, textContent |-> <<" ">>, id |-> ""],
     [tagLevel |-> 2, textContent |-> <<"S">>, id |-> ""]}

\* extractHeadings: level from the tag name, trimmed text, `el.id || undefined`;
\* headings without text are filtered out; undefined when the $$eval throws
\* or nothing is left
extractHeadings(page) ==
    LET els == page.headings.rows
        mapped == [i \in 1..Len(els) |->
                     Heading(els[i].tagLevel, Trim(els[i].textContent),
                             IF els[i].id = "" THEN "undefined" ELSE els[i].id)]
        headings == SelectSeq(mapped, LAMBDA h : h.text /= EmptyText)
    IN IF page.headings.threw \/ headings = <<>>
       THEN [defined |-> FALSE, items |-> <<>>]
       ELSE [defined |-> TRUE, items |-> headings]

\* `const headings = await this.extractHeadings(page); return headings`
tocFallbackNone(page) == [defined |-> FALSE, items |-> <<>>]
tocFallback(page) == extractHeadings(page)

extractTableOfContents(page) ==
    LET tocHeadings == chainItems("toc", page.toc, 1)
    IN IF tocHeadings /= <<>> THEN [defined |-> TRUE, items |-> tocHeadings]
       ELSE tocFallback(page)

TCPages ==
    [toc : MIChains(TocSelectors, TocLinks),
     headings : {[ContainerRows(r) EXCEPT !.threw = t] :
                    r \in SeqsUpTo(HeadingElements, MaxHeadings), t \in BOOLEAN}]

InitTC ==
    /\ ComponentsIdle
    /\ fnArgs \in TCPages
    /\ fnResult = <<>>
    /\ fnPc = "called"

\* extractDocData with extractTableOfContents and extractHeadings enabled
TCReturns ==
    /\ fnPc = "called"
    /\ fnResult' = [tableOfContents |-> extractTableOfContents(fnArgs),
                    headings |-> extractHeadings(fnArgs)]
    /\ fnPc' = "returned"
    /\ UNCHANGED fnArgs
    /\ UNCHANGED notFn

NextTC == TCReturns

SpecTC == InitTC /\ [][NextTC]_vars

\* no selector of the table of contents yields an entry
TCNoTocEntry ==
    \A i \in TocSelectors : ContainerItems("toc", fnArgs.toc[i]) = <<>>

\* the page has an h1..h6 element with text
TCHasHeadingText ==
    \E i \in DOMAIN fnArgs.headings.rows :
        Trim(fnArgs.headings.rows[i].textContent) /= EmptyText

\* C19: when no table-of-contents selector yields an entry and the page has
\* h1-h6 elements with text, the table of contents is the flat heading list
\* that extractHeadings returns for the page.
C19_TocFallsBackToHeadings ==
    (fnPc = "returned" /\ TCNoTocEntry /\ TCHasHeadingText) =>
        /\ fnResult.tableOfContents = fnResult.headings
        /\ ~fnArgs.headings.threw =>
              /\ fnResult.tableOfContents.defined
              /\ Len(fnResult.tableOfContents.items) =
                    Cardinality({i \in DOMAIN fnArgs.headings.rows :
                                    Trim(fnArgs.headings.rows[i].textContent) /= EmptyText})

\* C19 witness: a container of the table of contents exists but its only
\* link has no text, and the page's headings are returned
C19_Witness ==
    /\ fnPc = "returned"
    /\ TCNoTocEntry
    /\ \E i \in TocSelectors :
          fnArgs.toc[i].exists /\ ~fnArgs.toc[i].threw /\ fnArgs.toc[i].rows /= <<>>
    /\ fnResult.tableOfContents.defined
    /\ fnResult.tableOfContents.items =
          <<Heading(1, <<"T">>, "t"), Heading(2, <<"S">>, "undefined")>>

----------------------------------------------------------------------------
\* markdown.ts: the 'images' rule of addImageSizePreservationRule

MaxDigits == 2

\* getAttribute: null when the attribute is absent, else its text
AttrAbsent == [present |-> FALSE, value |-> <<>>]
Attr(value) == [present |-> TRUE, value |-> value]

\* `x || ''` and `if (x)`: null and '' are falsy
AttrText(a) == IF a.present THEN a.value ELSE <<>>

\* the rule without the size suffix
imageReplacementPlain(img) ==
    IF AttrText(img.src) = <<>> THEN <<>>
    ELSE <<"!", "[">> \o img.alt \o <<"]", "(">> \o AttrText(img.src) \o <<")">>

\* replacement(content, node)
imageReplacement(img) ==
    LET alt == img.alt
        src == AttrText(img.src)
        width == AttrText(img.width)
        height == AttrText(img.height)
        open == <<"!", "[">> \o alt \o <<"]", "(">> \o src
    IN IF src = <<>> THEN <<>>
       ELSE IF width /= <<>> /\ height /= <<>>
       THEN open \o <<" ", "=">> \o width \o <<"x">> \o height \o <<")">>
       ELSE IF width /= <<>>
       THEN open \o <<" ", "=">> \o width \o <<"x">> \o <<")">>
       ELSE IF height /= <<>>
       THEN open \o <<" ", "=">> \o <<"x">> \o height \o <<")">>
       ELSE open \o <<")">>

\* attribute values: absent, empty, or up to MaxDigits digits
SizeAttrs == {AttrAbsent} \cup {Attr(v) : v \in SeqsUpTo({"1", "2"}, MaxDigits)}

ImgElements ==
    [alt : {<<>>, <<"x">>},
     src : {AttrAbsent, Attr(<<>>), Attr(<<"y">>)},
     width : SizeAttrs,
     height : SizeAttrs]

InitIM ==
    /\ ComponentsIdle
    /\ fnArgs \in ImgElements
    /\ fnResult = <<>>
    /\ fnPc = "called"

IMReturns ==
    /\ fnPc = "called"
    /\ fnResult' = imageReplacement(fnArgs)
    /\ fnPc' = "returned"
    /\ UNCHANGED fnArgs
    /\ UNCHANGED notFn

NextIM == IMReturns

SpecIM == InitIM /\ [][NextIM]_vars

\* ![alt](src suffix)
IMForm(suffix) ==
    <<"!", "[">> \o fnArgs.alt \o <<"]", "(">> \o fnArgs.src.value \o suffix \o <<")">>

\* the form the rule must give when `w` and `h` say whether the image counts
\* as having a width and a height
IMExpected(w, h) ==
    IF AttrText(fnArgs.src) = <<>> THEN <<>>
    ELSE IF w /\ h
    THEN IMForm(<<" ", "=">> \o fnArgs.width.value \o <<"x">> \o fnArgs.height.value)
    ELSE IF w THEN IMForm(<<" ", "=">> \o fnArgs.width.value \o <<"x">>)
    ELSE IF h THEN IMForm(<<" ", "=", "x">> \o fnArgs.height.value)
    ELSE IMForm(<<>>)

\* C20 as stated: the form is chosen by the presence of the width and the
\* height attribute.
C20_FormByPresence ==
    fnPc = "returned" =>
        fnResult = IMExpected(fnArgs.width.present, fnArgs.height.present)

\* C20, amended: the form is chosen by whether the width and the height
\* attribute have a non-empty value (a present but empty attribute counts as
\* absent), and for one alt and src and any numeric W and H the four
\* non-empty forms are pairwise distinct.
C20_FormByNonEmptyValue ==
    fnPc = "returned" =>
        /\ fnResult = IMExpected(AttrText(fnArgs.width) /= <<>>,
                                 AttrText(fnArgs.height) /= <<>>)
        /\ (AttrText(fnArgs.src) /= <<>>
              /\ AttrText(fnArgs.width) /= <<>> /\ AttrText(fnArgs.height) /= <<>>) =>
              LET forms == <<fnResult,
                             imageReplacement([fnArgs EXCEPT !.height = AttrAbsent]),
                             imageReplacement([fnArgs EXCEPT !.width = AttrAbsent]),
                             imageReplacement([fnArgs EXCEPT !.width = AttrAbsent,
                                                             !.height = AttrAbsent])>>
              IN \A i, j \in 1..4 : i /= j => forms[i] /= forms[j] /\ forms[i] /= <<>>

\* C20 witness: an image with a width and a height is given the =WxH suffix
C20_Witness ==
    /\ fnPc = "returned"
    /\ fnArgs.width = Attr(<<"1", "2">>)
    /\ fnArgs.height = Attr(<<"2">>)
    /\ fnResult = <<"!", "[", "x", "]", "(", "y", " ", "=", "1", "2", "x", "2", ")">>

----------------------------------------------------------------------------
\* Rate limiter under concurrent callers

\* the callers whose latest call returned limited = false
RLAdmitted == {p \in RLProcs : rlPc[p] = "done" /\ ~rlLoc[p].limited}

\* the count stored for a domain (0 without an entry)
RLStoredCount(d) == IF rl[d] = Null THEN 0 ELSE rl[d].value.count

\* C21: while the first window lasts and the store never throws, more than
\* maxRequests calls return limited = false only when calls overlap (and there
\* is such an interleaving: the witness).
C21_OverAdmissionNeedsOverlap ==
    (now = 0 /\ ~rlFaulted /\ Cardinality(RLAdmitted) > maxRequests)
        => \E p \in RLAdmitted : rlLoc[p].overlap

\* C21 witness: two overlapping calls both read the store before either
\* wrote, and with maxRequests = 1 both return limited = false in one window
C21_Witness ==
    /\ now = 0
    /\ ~rlFaulted
    /\ Cardinality(RLAdmitted) > maxRequests
    /\ \A d \in RLDomains : RLStoredCount(d) <= maxRequests

\* a caller's kv.set is applied
RLWrites(p) == rlPc[p] = "inc_set" /\ rl' /= rl

----------------------------------------------------------------------------
\* API route: what the requests do to the rate-limit store and the cache

\* the requests received so far have all been answered and their work has ended
HAllFinished == \A r \in 1..nReqs : HFinished(r) /\ SFinished(r)

\* the admitted requests for a domain: neither the handler nor the scraper
\* found the domain limited
HAdmitted(d) ==
    {r \in 1..nReqs : extractDomain(hReq[r].url) = d /\ hReq[r].rejectedBy = "none"}

\* C23: starting from an empty store, after k sequential admitted requests
\* for a domain in one window, with the rateLimit option at its default, the
\* stored count of the domain is k.
C23_CountCountsRequests ==
    \A d \in DOMAIN rl :
        (/\ nReqs > 0 /\ HAllFinished /\ now = 0
         /\ \A r \in 1..nReqs : r \in HAdmitted(d) /\ hReq[r].opts.rateLimit
         /\ \A c \in InitialCounts : RLStoredCount(d) < c)
            => RLStoredCount(d) = nReqs

----------------------------------------------------------------------------
\* Cache layer: concurrent calls for one key

\* the call of p missed (nothing stored, lookup answered) and invoked its
\* producer, and its store write was applied
CSMissedAndStored(p) ==
    /\ csPc[p] = "done"
    /\ csLoc[p].calls = 1 /\ ~csLoc[p].held /\ ~csLoc[p].getThrew
    /\ ~csLoc[p].setThrew /\ csLoc[p].outcome = "returned"

\* C24: there is no single-flight: the entry of a key changes only in the
\* step in which some call's kv.set is applied, and that step replaces the
\* whole entry by that call's own value (never a merge with what was
\* stored), so once two calls that both missed have finished the cache holds
\* the value of whichever set was applied last.
C24_LastSetWins ==
    /\ [][\A k \in CacheKeys :
            /\ cache'[k] /= cache[k] =>
                  \E p \in CSProcs :
                      /\ csPc[p] = "set" /\ csPc'[p] = "done" /\ csLoc[p].key = k
                      /\ cache'[k] = KvSet(csLoc[p].value, csLoc[p].ttl, now)
            /\ \A p \in CSProcs :
                  (csPc[p] = "set" /\ csPc'[p] = "done" /\ csLoc[p].key = k
                        /\ ~csLoc'[p].setThrew) =>
                      cache'[k] = KvSet(csLoc[p].value, csLoc[p].ttl, now)]_vars
    /\ [](\A p, q \in CSProcs :
            (p /= q /\ csLoc[p].key = csLoc[q].key
                /\ CSMissedAndStored(p) /\ CSMissedAndStored(q)) =>
                cache[csLoc[p].key].value \in {csLoc[p].value, csLoc[q].value})

\* C24 witness: two calls for one key both missed, both invoked their
\* producers, which returned different values, both stored, and the cache
\* holds the value of the second call
C24_Witness ==
    /\ csLoc[1].key = csLoc[2].key
    /\ CSMissedAndStored(1) /\ CSMissedAndStored(2)
    /\ csLoc[1].value /= csLoc[2].value
    /\ cache[csLoc[1].key].value = csLoc[2].value

----------------------------------------------------------------------------
\* API route: the scrape task after a timeout

\* the error withTimeout rejects with when its timer fires
ScrapeTimeoutError == createTimeoutError(ScrapeTimeoutMessage)

\* this step is the one in which the timer of request r fires
HTimesOutNow(r) ==
    /\ hReq[r].hpc = "h_await"
    /\ \/ hReq'[r].hpc = "h_closing" /\ hReq'[r].hout = Rejected(ScrapeTimeoutError)
       \/ /\ hReq'[r].hpc = "responded"
          /\ hReq'[r].status = ScrapeTimeoutError.statusCode
          /\ hReq'[r].errmsg = ScrapeTimeoutError.message

\* the handler of request r no longer awaits the scrape task, which goes on
HAbandoned(r) == hReq[r].hpc \in {"h_closing", "responded"} /\ ~SFinished(r)

\* C25: the timer of withTimeout does not cancel the scrape task: the step
\* in which it fires leaves the task where it is, and the abandoned task
\* goes on as before: a failed page.goto with retries left is followed by
\* the sleep and the next attempt, a result that was extracted goes to the
\* cache, and its kv.set stores it.
C25_TimeoutDoesNotCancel ==
    [][\A r \in 1..MaxReqs :
          /\ HTimesOutNow(r) =>
                /\ hReq'[r].spc = hReq[r].spc /\ ~SFinished(r)'
                /\ hReq'[r].out = hReq[r].out
                /\ hReq'[r].retries = hReq[r].retries
          /\ (HAbandoned(r) /\ hReq'[r].spc /= hReq[r].spc) =>
                LET rec == hReq[r]
                    k == cacheKeyText(rec.url, <<>>, "scrape")
                IN /\ rec.spc = "s_nav_wait" => hReq'[r].spc = "s_nav"
                   /\ (rec.spc = "s_nav" /\ hReq'[r].spc /= "s_extract"
                            /\ rec.retries + 1 < rec.opts.maxRetries) =>
                         hReq'[r].spc = "s_nav_wait"
                   /\ (rec.spc = "s_page_close" /\ rec.br = "open"
                            /\ rec.out.state = "fulfilled" /\ rec.opts.cacheEnabled) =>
                         hReq'[r].spc = "s_cache_set"
                   /\ (rec.spc = "s_cache_set" /\ ~hReq'[r].cacheFault) =>
                         cache'[k] = KvSet(Serialize(rec.out.value),
                                           cachedScrapeTtl(rec.opts.cacheTtl), now)]_vars

\* C25 witness: the only request was answered with the timeout error and no
\* data, and its scrape task went on, navigated, and stored its result
C25_Witness ==
    /\ nReqs = 1 /\ HFinished(1) /\ SFinished(1)
    /\ hReq[1].status = ScrapeTimeoutError.statusCode
    /\ hReq[1].errmsg = ScrapeTimeoutError.message
    /\ hReq[1].data = Null
    /\ hReq[1].navigated
    /\ cache[cacheKeyText(hReq[1].url, <<>>, "scrape")] /= Null

----------------------------------------------------------------------------
\* API route: admission comes first

\* the rate-limit calls of request r that are still to be made or under way
HDeciding(r) ==
    \/ hReq[r].hpc \in {"h_check_get", "h_inc_get", "h_inc_set"}
    \/ hReq[r].spc \in {"s_check_get", "s_inc_get", "s_inc_set"}

\* C26: the rate-limit decisions come before the cache: a request that the
\* handler or the scraper found limited has read no cache entry, launched no
\* browser and navigated nowhere, and its task has ended; and no request has
\* read the cache or launched a browser while a rate-limit call of it was
\* still to be answered.
C26_AdmissionBeforeCache ==
    \A r \in 1..nReqs :
        /\ hReq[r].rejectedBy /= "none" =>
              /\ ~hReq[r].cacheRead /\ ~hReq[r].launched /\ ~hReq[r].navigated
              /\ SFinished(r)
              /\ hReq[r].data = Null
        /\ HDeciding(r) => (~hReq[r].cacheRead /\ ~hReq[r].launched)

\* C26 witness: the second request was rejected by the rate limiter while
\* the cache held an unexpired result for its url, and it read no cache
\* entry and launched no browser
C26_Witness ==
    /\ nReqs = 2 /\ HFinished(2) /\ SFinished(2)
    /\ hReq[2].rejectedBy /= "none" /\ hReq[2].opts.cacheEnabled
    /\ KvGet(cache[cacheKeyText(hReq[2].url, <<>>, "scrape")], now) /= Null
    /\ ~hReq[2].cacheRead /\ ~hReq[2].launched

----------------------------------------------------------------------------
\* API route: whose result the cache serves

\* request r was answered with a result read from the cache
HServedFromCache(r) ==
    /\ HFinished(r) /\ hReq[r].status = 200
    /\ hReq[r].cacheRead /\ ~hReq[r].launched

\* C27: a result served from the cache to a request of content type T was
\* produced by the scraper of type T.
C27_CacheServesOwnType ==
    \A r \in 1..nReqs : HServedFromCache(r) => hReq[r].data.by = hReq[r].type

----------------------------------------------------------------------------
\* C28: navigateToUrl returns normally only after one of its page.goto
\* calls succeeded, for every maxRetries (0 included); otherwise it throws
\* the error of its last page.goto.
C28_ReturnsOnlyAfterGoto ==
    rtKind = "navigateToUrl" =>
        /\ rtPc = "returned" => RTLastOk
        /\ rtPc = "threw" =>
              (rtCalls /= <<>> /\ rtLast = rtCalls[Len(rtCalls)])

----------------------------------------------------------------------------
(***************************************************************************)
(* API route: the checks the handler makes before the rate limiter         *)
(***************************************************************************)
MAX_TIMEOUT == 60000
AllowedProtocols == {"http", "https"}
AllowedScraperTypes == {"news", "ecommerce", "techdocs", "generic"}

\* url texts, as sequences of pieces: scheme, "://", host, path
UrlTexts ==
    {<<"https", "://", "example.com", "/a">>,
     <<"ftp", "://", "example.com", "/a">>,
     <<"example.com", "/a">>,
     <<"https", "://">>}

\* the url property of the body: absent, a number, or a string
UrlInputs ==
    {[kind |-> "undefined", text |-> <<>>], [kind |-> "number", text |-> <<>>],
     [kind |-> "string", text |-> <<>>]}
        \cup {[kind |-> "string", text |-> t] : t \in UrlTexts}

\* req.body: null, or an object with a url and options.timeout
Bodies ==
    {Null} \cup [url : UrlInputs, timeout : {Undefined, MAX_TIMEOUT, MAX_TIMEOUT + 1}]

\* the requests: method, the type of req.query, and the body
RawRequests ==
    [method : {"GET", "POST"},
     type : {"news", "techdocs", "generic", "video", "undefined"},
     body : Bodies]

\* `new URL(url)`: throws without a scheme or with an empty host
ParseUrl(text) ==
    IF Len(text) >= 3 /\ text[2] = "://" /\ text[3] /= ""
    THEN [ok |-> TRUE, protocol |-> text[1], hostname |-> <<text[3]>>,
          pathname |-> IF Len(text) >= 4 THEN text[4] ELSE "/"]
    ELSE [ok |-> FALSE, protocol |-> "", hostname |-> <<>>, pathname |-> ""]

\* validateUrl with the default options: the protocol must be allowed (no
\* domain is required or blocked, https is not required)
validateUrl(text) ==
    LET parsedUrl == ParseUrl(text)
    IN IF ~parsedUrl.ok
       THEN [valid |-> FALSE, reason |-> "Invalid URL format"]
       ELSE IF parsedUrl.protocol \notin AllowedProtocols
       THEN [valid |-> FALSE, reason |-> "Protocol is not allowed"]
       ELSE [valid |-> TRUE, reason |-> ""]

\* validateScraperRequest with the default options: url, then type, then
\* `request.options?.timeout && ... timeout > maxTimeout`
validateScraperRequest(text, type, timeout) ==
    IF ~validateUrl(text).valid THEN validateUrl(text)
    ELSE IF type \notin AllowedScraperTypes
    THEN [valid |-> FALSE, reason |-> "Scraper type is not allowed"]
    ELSE IF timeout /= Undefined /\ timeout /= 0 /\ timeout > MAX_TIMEOUT
    THEN [valid |-> FALSE, reason |-> "Timeout value exceeds maximum allowed timeout"]
    ELSE [valid |-> TRUE, reason |-> ""]

\* destructuring a body that is null throws a TypeError inside the try
DestructureError ==
    GenericError(<<"Cannot destructure property 'url' of 'req.body' as it is null.">>)

\* the handler up to the rate limiter: the answer it sends, or "pass"
EarlyAnswer(req) ==
    IF req.method /= "POST"
    THEN [pass |-> FALSE, status |-> 405, error |-> <<"Method not allowed. Use POST.">>]
    ELSE IF req.body = Null
    THEN [pass |-> FALSE, status |-> handleError(DestructureError).statusCode,
          error |-> handleError(DestructureError).message]
    ELSE IF req.body.url.kind /= "string" \/ req.body.url.text = <<>>
    THEN [pass |-> FALSE, status |-> 400, error |-> <<"Invalid or missing URL parameter">>]
    ELSE LET validation ==
                 validateScraperRequest(req.body.url.text, req.type, req.body.timeout)
         IN IF ~validation.valid
            THEN [pass |-> FALSE, status |-> 400, error |-> <<validation.reason>>]
            ELSE [pass |-> TRUE, status |-> 0, error |-> <<>>]

\* a request arrives (once the previous one has been answered and its work
\* has ended): it is answered at once, or the handler issues the kv.get of
\* checkRateLimit
HReceive(req) ==
    /\ nReqs < MaxReqs
    /\ nReqs > 0 => (HFinished(nReqs) /\ SFinished(nReqs))
    /\ nReqs' = nReqs + 1
    /\ LET early == EarlyAnswer(req)
           parsedUrl == ParseUrl(req.body.url.text)
       IN hReq' = [hReq EXCEPT ![nReqs + 1] =
             IF early.pass
             THEN NewReq(req.type, [host |-> parsedUrl.hostname,
                                    path |-> parsedUrl.pathname], RequestOptions)
             ELSE [NewReq(req.type, AnyUrl, RequestOptions) EXCEPT
                      !.hpc = "responded", !.status = early.status,
                      !.errmsg = early.error, !.rejectedBy = "validation"]]
    /\ UNCHANGED <<now, rl, cache>>
    /\ UNCHANGED notH

NextHV ==
    \/ \E req \in RawRequests : HReceive(req)
    \/ \E r \in 1..MaxReqs : HCheckGet(r)
    \/ \E r \in 1..MaxReqs : HIncGet(r)
    \/ \E r \in 1..MaxReqs : HIncSet(r)
    \/ \E r \in 1..MaxReqs : HTimerFires(r)
    \/ \E r \in 1..MaxReqs : HCloseDone(r)
    \/ \E r \in 1..MaxReqs : SCheckGet(r)
    \/ \E r \in 1..MaxReqs : SIncGet(r)
    \/ \E r \in 1..MaxReqs : SIncSet(r)
    \/ \E r \in 1..MaxReqs, ok \in BOOLEAN : SCacheGet(r, ok)
    \/ \E r \in 1..MaxReqs, ok \in BOOLEAN : SLaunchDone(r, ok)
    \/ \E r \in 1..MaxReqs : SPageCreated(r)
    \/ \E r \in 1..MaxReqs, ok \in BOOLEAN : SNavGoto(r, ok)
    \/ \E r \in 1..MaxReqs : SNavWake(r)
    \/ \E r \in 1..MaxReqs, x \in Extracts : SExtract(r, x)
    \/ \E r \in 1..MaxReqs : SPageClose(r)
    \/ \E r \in 1..MaxReqs, ok \in BOOLEAN : SCacheSet(r, ok)
    \/ HTick

InitHV == InitH

SpecHV == InitHV /\ [][NextHV]_vars

\* request r was answered by the checks that come before the rate limiter
HRejectedEarly(r) == hReq[r].hpc /= "new" /\ hReq[r].rejectedBy = "validation"

\* C29: a request rejected before scraping is answered 405 or 400; the step
\* that answers it leaves the rate-limit store and the cache unchanged and
\* no browser is launched for it; and no request that passed the checks has
\* a type for which the switch takes its default branch.
C29_EarlyRejection ==
    /\ [](\A r \in 1..nReqs :
            /\ HRejectedEarly(r) =>
                  /\ hReq[r].status \in {405, 400}
                  /\ HFinished(r) /\ SFinished(r)
                  /\ ~hReq[r].launched /\ ~hReq[r].cacheRead
            /\ ~HRejectedEarly(r) => SwitchBranch(hReq[r].type) /= "default"
            /\ hReq[r].rejectedBy /= "switch")
    /\ [][\A r \in 1..MaxReqs :
            (hReq[r].hpc = "new" /\ HRejectedEarly(r)') =>
                (rl' = rl /\ cache' = cache)]_vars

----------------------------------------------------------------------------
(***************************************************************************)
(* Proxy rotation (src/lib/proxies.ts): getProxy, addProxy, removeProxy    *)
(* over the KV entries 'proxies' and 'proxy_index'; the calls are made one *)
(* after another                                                           *)
(***************************************************************************)
MaxProxies == 3      \* longest proxy list
MaxProxyOps == 6     \* calls per behaviour

ProxyPool ==
    {[host |-> "p1", port |-> 8080], [host |-> "p1", port |-> 8081],
     [host |-> "p2", port |-> 8080]}

\* `await kv.get('proxies') || []`
ProxiesOrEmpty(entry) == IF entry.present THEN entry.list ELSE <<>>
\* `await kv.get('proxy_index') || 0`
IndexOrZero(entry) == IF entry.present THEN entry.value ELSE 0

\* `proxies[currentIndex]`: undefined beyond the end of the array
ElementAt(proxies, currentIndex) ==
    IF currentIndex < Len(proxies)
    THEN [kind |-> "proxy", value |-> proxies[currentIndex + 1]]
    ELSE [kind |-> "undefined", value |-> [host |-> "", port |-> 0]]

NullProxy == [kind |-> "null", value |-> [host |-> "", port |-> 0]]

\* proxies.filter(p => p.host !== host || p.port !== port)
RECURSIVE FilterOut(_, _, _)
FilterOut(proxies, host, port) ==
    IF proxies = <<>> THEN <<>>
    ELSE LET rest == FilterOut(Tail(proxies), host, port)
         IN IF Head(proxies).host /= host \/ Head(proxies).port /= port
            THEN <<Head(proxies)>> \o rest
            ELSE rest

InitPX ==
    /\ now = 0
    /\ maxRequests = 1
    /\ RLIdle
    /\ CacheIdle
    /\ TOIdle
    /\ RTIdle
    /\ HIdle
    /\ FnIdle
    /\ PXIdle

\* getProxy(): null without proxies; otherwise the element at the stored
\* index, and the index moves on by one modulo the length of the list
GetProxy ==
    /\ pxOps < MaxProxyOps
    /\ pxOps' = pxOps + 1
    /\ LET proxies == ProxiesOrEmpty(pxProxies)
           currentIndex == IndexOrZero(pxIndex)
       IN IF proxies = <<>>
          THEN /\ pxReturned' = Append(pxReturned, NullProxy)
               /\ pxIndex' = pxIndex
          ELSE /\ pxReturned' = Append(pxReturned, ElementAt(proxies, currentIndex))
               /\ pxIndex' = [present |-> TRUE,
                              value |-> (currentIndex + 1) % Len(proxies)]
    /\ UNCHANGED pxProxies
    /\ UNCHANGED notPX

\* addProxy(proxy): the proxy is pushed onto the stored list
AddProxy(proxy) ==
    /\ pxOps < MaxProxyOps
    /\ Len(ProxiesOrEmpty(pxProxies)) < MaxProxies
    /\ pxOps' = pxOps + 1
    /\ pxProxies' = [present |-> TRUE, list |-> Append(ProxiesOrEmpty(pxProxies), proxy)]
    /\ pxReturned' = <<>>
    /\ UNCHANGED pxIndex
    /\ UNCHANGED notPX

\* removeProxy(host, port): the filtered list is stored
RemoveProxy(host, port) ==
    /\ pxOps < MaxProxyOps
    /\ pxOps' = pxOps + 1
    /\ pxProxies' = [present |-> TRUE,
                     list |-> FilterOut(ProxiesOrEmpty(pxProxies), host, port)]
    /\ pxReturned' = IF pxProxies'.list = ProxiesOrEmpty(pxProxies)
                     THEN pxReturned ELSE <<>>
    /\ UNCHANGED pxIndex
    /\ UNCHANGED notPX

NextPX ==
    \/ GetProxy
    \/ \E proxy \in ProxyPool : AddProxy(proxy)
    \/ \E proxy \in ProxyPool : RemoveProxy(proxy.host, proxy.port)

SpecPX == InitPX /\ [][NextPX]_vars

\* how often a result occurs among the results i..j / in the list
RECURSIVE CountReturned(_, _, _)
CountReturned(i, j, proxy) ==
    IF i > j THEN 0
    ELSE (IF pxReturned[i].kind = "proxy" /\ pxReturned[i].value = proxy THEN 1 ELSE 0)
             + CountReturned(i + 1, j, proxy)
RECURSIVE CountStored(_, _)
CountStored(proxies, proxy) ==
    IF proxies = <<>> THEN 0
    ELSE (IF Head(proxies) = proxy THEN 1 ELSE 0) + CountStored(Tail(proxies), proxy)

\* C30: whenever the stored list is non-empty, the stored index is below
\* its length and every getProxy call made on it returned one of its
\* elements; and with the list unchanged, any n = length consecutive calls
\* returned each proxy of the list as often as it is in the list (once).
C30_RotationStaysInList ==
    LET proxies == ProxiesOrEmpty(pxProxies)
        n == Len(proxies)
    IN n > 0 =>
          /\ IndexOrZero(pxIndex) < n
          /\ \A i \in 1..Len(pxReturned) :
                /\ pxReturned[i].kind = "proxy"
                /\ \E j \in 1..n : pxReturned[i].value = proxies[j]
          /\ \A i \in 1..Len(pxReturned) :
                i + n - 1 <= Len(pxReturned) =>
                    \A proxy \in ProxyPool :
                        CountReturned(i, i + n - 1, proxy) = CountStored(proxies, proxy)

====
